---------------------------- MODULE Spec2Model ----------------------------
(***************************************************************************)
(* A model of the LLC eviction-set builder (constructingEvictionSet.cpp)   *)
(* and of the primitives it is built from: candidate enumeration, the      *)
(* randomized chain, Probe, conflict-set growth and slice partitioning.    *)
(*                                                                         *)
(* A node is named by its index in the backing array; its address is       *)
(* base + CACHE_LINE_SIZE * index.  The memory of the array is the pair of *)
(* functions next/prev; a node that was never written is not in their      *)
(* domain (aligned_alloc returns uninitialized memory).                    *)
(***************************************************************************)
EXTENDS Integers, Sequences, FiniteSets, TLC

(***************************************************************************)
(* Platform constants (constants.h).  The cache geometry LLC_BANKS and     *)
(* WAYS_PER_BANK is scaled down from 12 x 20; the address layout is kept.  *)
(***************************************************************************)
CACHE_LINE_SIZE == 64

LLC_BANKS == 2

WAYS_PER_BANK == 2

SETS_PER_BANK == 2048

SET_INDEX_BITS == 131008

CACHE_LINE_BITS == 63

NUM_SET_INDEX_BITS == 11

NUM_CACHE_LINE_BITS == 6

LLC_CYCLE_THRESHOLD == 100

CONFLICT_SET_SIZE == LLC_BANKS * WAYS_PER_BANK

\* Probe's plausibility window (while (time < 20 || time > 200)).
PROBE_MIN_TIME == 20

PROBE_MAX_TIME == 200

\* The number of throwaway probes before conflict growth (10 in the code) and
\* of confirmation probes of a witness (100 in the code), scaled down.
WARMUP_PROBES == 2

CONFIRM_PROBES == 2

\* The two target cache sets of the harness.
CACHE_SET_ATTACKER == 27

CACHE_SET_VICTIM == 1898

(***************************************************************************)
(* Bounds of the model.                                                    *)
(***************************************************************************)
\* The backing array holds up to this many candidates more than the minimum
\* 2 * LLC_BANKS * WAYS_PER_BANK (and down to one fewer, so that the
\* too-small region happens as well).
ExtraCandidates == 1

\* Seeds of the pseudo-random stream that drives the builder's shuffle.
NumSeeds == 2

\* Candidate-set sizes for which every outcome of the shuffle is enumerated.
MaxShuffleLen == 5

\* Measurements a single Probe call is followed through; later ones are
\* counted as this many.
MaxAttempts == 3

\* Array entries enumerated when FindCandidates is checked on its own: a bit
\* more than one full period of the set index.
FindEntries == 2050

NULL == -1

(***************************************************************************)
(* uint64_t arithmetic used by the code: &, << and >>.                     *)
(***************************************************************************)
RECURSIVE BitAnd(_, _)
BitAnd(a, b) ==
    IF a = 0 \/ b = 0 THEN 0
    ELSE (a % 2) * (b % 2) + 2 * BitAnd(a \div 2, b \div 2)

ShiftLeft(x, n) == x * 2^n

ShiftRight(x, n) == x \div 2^n

Min(S) == CHOOSE x \in S : \A y \in S : x <= y

\* &(array[i])
AddressOf(base, i) == base + CACHE_LINE_SIZE * i

(***************************************************************************)
(* FindCandidates: the entries of the array whose address selects setIdx.  *)
(***************************************************************************)
\* Mutants of the mask test: the set index shifted one bit short, and a mask
\* that misses the top bit of the set index.
MapsToSetShiftedShort(address, setIdx) ==
    BitAnd(address, SET_INDEX_BITS)
        = ShiftLeft(setIdx, NUM_CACHE_LINE_BITS - 1)

MapsToSetShortMask(address, setIdx) ==
    BitAnd(address, SET_INDEX_BITS - 2 ^ 16)
        = ShiftLeft(setIdx, NUM_CACHE_LINE_BITS)

MapsToSet(address, setIdx) ==
    BitAnd(address, SET_INDEX_BITS) = ShiftLeft(setIdx, NUM_CACHE_LINE_BITS)

\* assert((address & CACHE_LINE_BITS) == 0), for every entry of an array that
\* starts at base.
Aligned(base) == BitAnd(base, CACHE_LINE_BITS) = 0

FindCandidates(base, entries, setIdx) ==
    {i \in 0..(entries - 1) : MapsToSet(AddressOf(base, i), setIdx)}

(***************************************************************************)
(* Rings.  nx and pv are the next and prev fields of the nodes.  In the     *)
(* recursive definitions the value handed to the next step is bound by a   *)
(* set constructor, so that it is computed before that step.               *)
(***************************************************************************)
RECURSIVE Reach(_, _, _)
Reach(nx, n, seen) ==
    IF n \in seen \/ n \notin DOMAIN nx THEN seen
    ELSE CHOOSE r \in {Reach(nx, m, s) : m \in {nx[n]}, s \in {seen \cup {n}}} :
            TRUE

\* The nodes met by following next from h.
RingNodes(nx, h) == Reach(nx, h, {})

\* node = node->next, steps times.  The walk is split in halves, and the node
\* reached half-way is bound by a set constructor, so that the evaluation is
\* neither deep nor repeated.
RECURSIVE Follow(_, _, _)
Follow(nx, n, steps) ==
    IF steps = 0 THEN n
    ELSE IF steps = 1 THEN nx[n]
    ELSE CHOOSE r \in {Follow(nx, mid, steps - steps \div 2) :
                          mid \in {Follow(nx, n, steps \div 2)}} : TRUE

\* SizeOfLinkedList: the number of steps until next returns to the start.  The
\* code loops forever on a list that never returns; that is reported as 0.
RECURSIVE WalkSize(_, _, _, _)
WalkSize(nx, head, n, size) ==
    IF n = head THEN size
    ELSE IF size > Cardinality(DOMAIN nx) THEN 0
    ELSE CHOOSE r \in {WalkSize(nx, head, m, size + 1) : m \in {nx[n]}} : TRUE

SizeOfLinkedList(nx, node) ==
    IF node = nx[node] THEN 1 ELSE WalkSize(nx, node, nx[node], 1)

\* h denotes a well-formed doubly-linked cycle of exactly n nodes.
WellFormedRing(nx, pv, h, n) ==
    LET R == RingNodes(nx, h) IN
    /\ h \in DOMAIN nx
    /\ Cardinality(R) = n
    /\ Follow(nx, h, n) = h
    /\ \A m \in R : /\ nx[m] \in R /\ pv[m] \in R
                    /\ pv[nx[m]] = m /\ nx[pv[m]] = m

(***************************************************************************)
(* RandomizeLinkedList.  std::random_shuffle swaps position i with          *)
(* position rand() % (i + 1) for i = 1 .. n-1; draws[i] is that remainder. *)
(***************************************************************************)
RECURSIVE SortedSeq(_)
SortedSeq(S) ==
    IF S = {} THEN <<>>
    ELSE CHOOSE r \in {<<m>> \o SortedSeq(S \ {m}) : m \in {Min(S)}} : TRUE

Swap(f, a, b) == [f EXCEPT ![a] = f[b], ![b] = f[a]]

RECURSIVE ShuffleFrom(_, _, _)
ShuffleFrom(perm, draws, i) ==
    IF i >= Len(draws) THEN perm
    ELSE CHOOSE r \in {ShuffleFrom(p, draws, i + 1) :
                          p \in {Swap(perm, i, draws[i + 1])}} : TRUE

\* permutation[0 .. k-1] after std::random_shuffle; draws is a sequence of
\* length k whose (i+1)-th element is in 0..i.
RandomShuffle(k, draws) == ShuffleFrom([i \in 0..(k - 1) |-> i], draws, 1)

\* A store to a map or to a field of a node: the key enters the domain.
Store(f, key, v) == [m \in (DOMAIN f) \cup {key} |-> IF m = key THEN v ELSE f[m]]

\* std::map operator[]: a missing key reads as 0.
Lookup(d, key) == IF key \in DOMAIN d THEN d[key] ELSE 0

\* dictionary[permutation[i]] = i for i = 0 .. k-1, in that order.
RECURSIVE DictionaryFrom(_, _, _)
DictionaryFrom(dict, perm, i) ==
    IF i \notin DOMAIN perm THEN dict
    ELSE CHOOSE r \in {DictionaryFrom(d, perm, i + 1) :
                          d \in {Store(dict, perm[i], i)}} : TRUE

Dictionary(perm) == DictionaryFrom(<<>>, perm, 0)

\* Mutant of the last loop: the index after the last one is not wrapped.
RECURSIVE LinkFromNoWrap(_, _, _, _)
LinkFromNoWrap(mem, candidateList, dictionary, i) ==
    LET k == Len(candidateList)
        startNode == candidateList[Lookup(dictionary, i) + 1]
        endNode == candidateList[Lookup(dictionary, i + 1) + 1]
    IN IF i >= k THEN mem
       ELSE CHOOSE r \in
               {LinkFromNoWrap(m, candidateList, dictionary, i + 1) :
                   m \in {[next |-> Store(mem.next, startNode, endNode),
                           prev |-> Store(mem.prev, endNode, startNode)]}} :
               TRUE

\* The last loop of RandomizeLinkedList, from iteration i on: mem holds the
\* next and prev fields written so far.
RECURSIVE LinkFrom(_, _, _, _)
LinkFrom(mem, candidateList, dictionary, i) ==
    LET k == Len(candidateList)
        startNode == candidateList[Lookup(dictionary, i) + 1]
        endNode == candidateList[Lookup(dictionary, (i + 1) % k) + 1]
    IN IF i >= k THEN mem
       ELSE CHOOSE r \in
               {LinkFrom(m, candidateList, dictionary, i + 1) :
                   m \in {[next |-> Store(mem.next, startNode, endNode),
                           prev |-> Store(mem.prev, endNode, startNode)]}} :
               TRUE

\* The next and prev fields after RandomizeLinkedList(candidates), given the
\* fields before it.
RandomizeLinkedList(mem, cands, draws) ==
    CHOOSE r \in
        {LinkFrom(mem, candidateList, dictionary, 0) :
            candidateList \in {SortedSeq(cands)},
            dictionary \in
                {Dictionary(RandomShuffle(Cardinality(cands), draws))}} : TRUE

\* Every sequence of draws the shuffle of k elements can make.
AllDraws(k) == {d \in [1..k -> 0..(k - 1)] : \A i \in 1..k : d[i] <= i - 1}

\* The draws of a pseudo-random stream: rand() of the C standard's sample
\* implementation, reduced so that the state stays within 31 bits.
RandNext(x) == (x * 1103 + 12345) % 65536

RECURSIVE RandState(_, _)
RandState(seed, n) == IF n = 0 THEN seed ELSE RandNext(RandState(seed, n - 1))

SeededDraws(k, seed) ==
    [i \in 1..k |-> IF i = 1 THEN 0 ELSE (RandState(seed, i - 1) \div 16) % i]

(***************************************************************************)
(* State.                                                                  *)
(***************************************************************************)
VARIABLES
    pc,               \* position in GetEvictionSet (or in the other drivers)
    error,            \* the assertion that ended the run, or "none"
    platform,         \* "ideal": Probe is exact; "noisy": any plausible time
    setIndex,         \* the target cache set
    array,            \* [base, entries] of the allocated region, or NULL
    candidates,       \* std::set<Node*> candidates
    sliceOf,          \* the LLC bank each candidate maps to (ideal platform)
    next,             \* Node::next of the nodes written so far
    prev,             \* Node::prev of the nodes written so far
    candidateSetHead,
    conflictSetHead,
    candidate,
    count,
    i,                \* counter of the warmup and confirmation loops
    evictionSetHeads, \* std::vector<Node*> evictionSetHeads
    evictionSet,      \* std::set<Node*> evictionSet (the marked test nodes)
    testNode,
    missToDRAM,       \* result of the last Probe
    probed,           \* history: some Probe was issued
    conflictNodes,    \* history: nodes of the conflict ring when growth ended
    witnesses,        \* history: the witness each spliced ring was found with
    time,             \* Probe: the last latency measured
    attempts,         \* Probe: measurements taken in this call (capped)
    protocol,         \* Probe: steps of the current round, in order
    history,          \* Probe: latencies of the rounds already discarded
    currentNode,      \* Probe: the traversal's position in the ring
    mainPc,           \* position of the main thread in main()
    exitStatus,       \* "running", "exit0", "SIGABRT" or "SIGSEGV"
    builderError,     \* history: the assertion a GetEvictionSet call failed
    evictionSetsAttacker, \* the rings returned for CACHE_SET_ATTACKER
    evictionSetsVictim,   \* the rings returned for CACHE_SET_VICTIM
    profiler,         \* threadProfiler: [pc, pinned]
    closestBank,
    numVictimThreads,
    bank,             \* main's loop over the banks
    victimIndex,      \* main's loops over the victim threads of a bank
    attackers,        \* threadAttacker of each experiment: [pc, pinned, i]
    victims,          \* threadVictim: <<bank, index>> -> [pc, ring]
    attackerTimesArray,
    arrayWriter,      \* history: the experiment whose attacker wrote each cell
    victimBankBoundaries,
    clock,            \* the cycle counter __rdtsc() reads
    adjacent,         \* the memory around attackerTimesArray
    fileConstant,     \* lines of constant_access_times_<v>_threads.txt
    filePerBank,      \* lines of per_bank_access_times_<v>_threads.txt
    boundaries,       \* result of SplitResultsIntoBanks
    timesRead,        \* history: indices of attackerTimesArray main has read
    seed,             \* the argument of srand(), once it was called
    run,              \* the number of the GetEvictionSet call on this region
    firstRings        \* history: the node sets the first call returned

builderVars == <<pc, error, platform, setIndex, array, candidates, sliceOf,
                 next, prev, candidateSetHead, conflictSetHead, candidate,
                 count, i, evictionSetHeads, evictionSet, testNode,
                 missToDRAM, probed, conflictNodes, witnesses>>

\* What a call of Probe leaves alone: everything but its own locals, its
\* result and the position of the caller.
calleeFrame == <<error, platform, setIndex, array, candidates, sliceOf, next,
                 prev, candidateSetHead, conflictSetHead, candidate, count, i,
                 evictionSetHeads, evictionSet, testNode, conflictNodes,
                 witnesses>>

probeVars == <<time, attempts, protocol, history, currentNode>>

harnessVars == <<mainPc, exitStatus, builderError, evictionSetsAttacker,
                 evictionSetsVictim, profiler, closestBank, numVictimThreads,
                 bank, victimIndex, attackers, victims, attackerTimesArray,
                 arrayWriter, victimBankBoundaries, clock, adjacent,
                 fileConstant, filePerBank, boundaries, timesRead>>

rerunVars == <<seed, run, firstRings>>

vars == <<builderVars, probeVars, harnessVars, rerunVars>>

(***************************************************************************)
(* Probe as the builder sees it: one call, one answer.                     *)
(***************************************************************************)
\* Latencies of the timed re-read (constants.h: a hit ~40, a miss ~170).
LLC_HIT_TIME == 40

DRAM_TIME == 170

\* The candidate is evicted by a traversal of the ring entered at
\* setStartNode: the ring holds WAYS_PER_BANK lines of the candidate's bank.
EvictedBy(nodes, cand) ==
    Cardinality({n \in nodes : sliceOf[n] = sliceOf[cand]}) >= WAYS_PER_BANK

Evicts(nx, setStartNode, cand) == EvictedBy(RingNodes(nx, setStartNode), cand)

\* The plausible latencies the timed re-read can show.
Latencies(nx, setStartNode, cand) ==
    IF platform = "ideal"
    THEN IF Evicts(nx, setStartNode, cand) THEN {DRAM_TIME} ELSE {LLC_HIT_TIME}
    ELSE {PROBE_MIN_TIME, LLC_CYCLE_THRESHOLD, LLC_CYCLE_THRESHOLD + 1,
          PROBE_MAX_TIME}

\* Mutant of the classification: the threshold itself counts as a miss.
ProbeReturnAtThreshold(t) == t >= LLC_CYCLE_THRESHOLD

\* return time > LLC_CYCLE_THRESHOLD;
ProbeReturn(t) == t > LLC_CYCLE_THRESHOLD

\* The answers Probe(setStartNode, candidate) can give.
Probe(nx, setStartNode, cand) ==
    {ProbeReturn(t) : t \in Latencies(nx, setStartNode, cand)}

(***************************************************************************)
(* Relinking.                                                              *)
(***************************************************************************)
\* n->prev->next = n->next; n->next->prev = n->prev;
UnlinkPrevFirst(mem, n) ==
    LET nx1 == [mem.next EXCEPT ![mem.prev[n]] = mem.next[n]]
    IN [next |-> nx1, prev |-> [mem.prev EXCEPT ![nx1[n]] = mem.prev[n]]]

\* n->next->prev = n->prev; n->prev->next = n->next;
UnlinkNextFirst(mem, n) ==
    LET pv1 == [mem.prev EXCEPT ![mem.next[n]] = mem.prev[n]]
    IN [next |-> [mem.next EXCEPT ![pv1[n]] = mem.next[n]], prev |-> pv1]

\* Mutant of Relink: only n->prev->next = n.
RelinkForwardOnly(mem, n) ==
    [next |-> [mem.next EXCEPT ![mem.prev[n]] = n], prev |-> mem.prev]

\* n->prev->next = n; n->next->prev = n;
Relink(mem, n) ==
    LET nx1 == [mem.next EXCEPT ![mem.prev[n]] = n]
    IN [next |-> nx1, prev |-> [mem.prev EXCEPT ![nx1[n]] = n]]

\* Mutant of InsertBefore: the store prev->next = n is left out.
InsertBeforeOneWay(mem, n, head) ==
    LET nxt == head
        prv == mem.prev[head]
        nx1 == [mem.next EXCEPT ![n] = nxt]
        pv1 == [mem.prev EXCEPT ![n] = prv]
        pv2 == [pv1 EXCEPT ![nxt] = n]
    IN [next |-> nx1, prev |-> pv2]

\* Insert n before head: the four stores of lines 442-447 and 629-632.
InsertBefore(mem, n, head) ==
    LET nxt == head
        prv == mem.prev[head]
        nx1 == [mem.next EXCEPT ![n] = nxt]
        pv1 == [mem.prev EXCEPT ![n] = prv]
        pv2 == [pv1 EXCEPT ![nxt] = n]
    IN [next |-> [nx1 EXCEPT ![prv] = n], prev |-> pv2]

Mem == [next |-> next, prev |-> prev]

(***************************************************************************)
(* The attacker/victim harness (portAttack.cpp).  Timestamps are uint64_t: *)
(* an integer n >= 0 stands for itself and a negative integer -m for       *)
(* 2^64 - m, so that + and - are those of the integers and only the order  *)
(* differs.                                                                *)
(***************************************************************************)
\* Timed epochs of the attacker (5000000 in the code) and the largest number
\* of victim threads (10 in the code), scaled down.
ATTACKER_TIMED_ITERATIONS == 3

MAX_NUM_VICTIM_THREADS == 2

\* Cells past the end of attackerTimesArray that can be read before the read
\* faults.
PastEndCells == 1

\* Timestamps and bank boundaries enumerated when the output is checked on
\* its own.
MaxTime == 4

\* a < b and a <= b on uint64_t.
ULess(a, b) == IF (a < 0) = (b < 0) THEN a < b ELSE b < 0

ULessEq(a, b) == a = b \/ ULess(a, b)

\* The assertions of GetEvictionSet and of the functions it calls.
GetEvictionSetAsserts ==
    {"Unaligned", "InsufficientCandidates", "ChainSize",
     "SanityCheckCandidates", "SeedSize", "LeftoverSize", "ConflictSize",
     "SanityCheckConflictSet", "NoCandidatesLeft", "EvictionSetSize",
     "EvictionSetsOverlap", "SanityCheckEvictionSets"}

\* The ways a call of GetEvictionSet ends.
GetEvictionSetOutcomes == {"Done"} \cup GetEvictionSetAsserts

\* The vector a successful call returns: one ring per bank.
ReturnedRings == [b \in 1..LLC_BANKS |-> b - 1]

NoThread == [pc |-> "none", pinned |-> FALSE]

InitHarness ==
    /\ mainPc = "BuildAttacker"
    /\ exitStatus = "running"
    /\ builderError = "none"
    /\ evictionSetsAttacker = <<>>
    /\ evictionSetsVictim = <<>>
    /\ profiler = NoThread
    /\ closestBank = NULL
    /\ numVictimThreads = 0
    /\ bank = 0
    /\ victimIndex = 0
    /\ attackers = <<>>
    /\ victims = <<>>
    /\ attackerTimesArray = [j \in 1..ATTACKER_TIMED_ITERATIONS |-> 0]
    /\ arrayWriter = [j \in 1..ATTACKER_TIMED_ITERATIONS |-> NULL]
    /\ victimBankBoundaries = <<>>
    /\ clock = 1
    /\ adjacent = <<>>
    /\ fileConstant = <<>>
    /\ filePerBank = <<>>
    /\ boundaries = <<>>
    /\ timesRead = {}

\* No call of GetEvictionSet has been made on the region yet.
InitRerun ==
    /\ seed = NULL
    /\ run = 1
    /\ firstRings = {}

(***************************************************************************)
(* GetEvictionSet.                                                         *)
(***************************************************************************)
\* Base addresses aligned_alloc may return (cache-line aligned).
ArrayBases == {4194304, 4194304 + CACHE_LINE_SIZE * 100}

\* Sizes of the backing array, in entries: from one candidate too few to
\* ExtraCandidates more than needed.
ArraySizes ==
    {(2 * CONFLICT_SET_SIZE - 1 + j) * SETS_PER_BANK :
        j \in 0..(ExtraCandidates + 1)}

Platforms == {"ideal", "noisy"}

Banks == 0..(LLC_BANKS - 1)

\* *array == nullptr (lines 320 and 335): no region yet.
NoArray == [base |-> NULL, entries |-> 0]

Abort(what) ==
    /\ pc' = "Aborted"
    /\ error' = what

\* The locals of GetEvictionSet before a call.
InitBuilderLocals ==
    /\ pc = "NeedRegion"
    /\ error = "none"
    /\ platform \in Platforms
    /\ setIndex \in {CACHE_SET_ATTACKER, CACHE_SET_VICTIM}
    /\ array = NoArray
    /\ candidates = {}
    /\ sliceOf = <<>>
    /\ candidateSetHead = NULL
    /\ conflictSetHead = NULL
    /\ candidate = NULL
    /\ count = 0
    /\ i = 0
    /\ evictionSetHeads = <<>>
    /\ evictionSet = {}
    /\ testNode = NULL
    /\ missToDRAM = FALSE
    /\ probed = FALSE
    /\ conflictNodes = {}
    /\ witnesses = <<>>

\* No node exists yet.
InitBuilder ==
    /\ InitBuilderLocals
    /\ next = <<>>
    /\ prev = <<>>

InitProbeIdle ==
    /\ time = 0
    /\ attempts = 0
    /\ protocol = <<>>
    /\ history = <<>>
    /\ currentNode = NULL

Init == InitBuilder /\ InitProbeIdle /\ InitHarness /\ InitRerun

\* Lines 320-336: the region is allocated.
Allocate(bases, sizes) ==
    /\ pc = "NeedRegion"
    /\ array = NoArray
    /\ \E base \in bases, entries \in sizes :
          array' = [base |-> base, entries |-> entries]
    /\ pc' = "Allocated"
    /\ UNCHANGED <<error, platform, setIndex, candidates, sliceOf, next, prev,
                   candidateSetHead, conflictSetHead, candidate, count, i,
                   evictionSetHeads, evictionSet, testNode, missToDRAM,
                   probed, conflictNodes, witnesses, probeVars, harnessVars,
                   rerunVars>>

\* Lines 341-343 and 190.  The bank of each candidate is a fact of the
\* hardware that is fixed with the allocation; it only matters on the ideal
\* platform.
EnumerateCandidates ==
    /\ pc = "Allocated"
    /\ LET found == FindCandidates(array.base, array.entries, setIndex) IN
          /\ candidates' = found
          /\ IF platform = "ideal"
             THEN sliceOf' \in [found -> Banks]
             ELSE sliceOf' = <<>>
    /\ IF Aligned(array.base) THEN pc' = "Enumerated" /\ error' = error
       ELSE Abort("Unaligned")
    /\ UNCHANGED <<platform, setIndex, array, next, prev,
                   candidateSetHead, conflictSetHead, candidate, count, i,
                   evictionSetHeads, evictionSet, testNode, missToDRAM,
                   probed, conflictNodes, witnesses, probeVars, harnessVars,
                   rerunVars>>

\* Line 346 when it fails: assert(candidates.size() >= 2 * LLC_BANKS *
\* WAYS_PER_BANK).
\* Mutant of the check: enough candidates for the conflict set alone.
EnoughCandidatesForConflictSet(found) ==
    Cardinality(found) >= LLC_BANKS * WAYS_PER_BANK

EnoughCandidates(found) == Cardinality(found) >= 2 * LLC_BANKS * WAYS_PER_BANK

InsufficientCandidates ==
    /\ pc = "Enumerated"
    /\ ~EnoughCandidates(candidates)
    /\ Abort("InsufficientCandidates")
    /\ UNCHANGED <<platform, setIndex, array, candidates, sliceOf, next, prev,
                   candidateSetHead, conflictSetHead, candidate, count, i,
                   evictionSetHeads, evictionSet, testNode, missToDRAM,
                   probed, conflictNodes, witnesses, probeVars, harnessVars,
                   rerunVars>>

\* Mutant of Seeds: the second call draws its seed anew.
SeedsAnew == 0..(NumSeeds - 1)

\* The seeds a call may be run with: the code's srand(0) is one stream, the
\* model follows NumSeeds of them; a second call on the region has the seed
\* of the first.
Seeds == IF run = 1 THEN 0..(NumSeeds - 1) ELSE {seed}

\* Lines 319 and 346-360: the candidates are chained and the chain is
\* measured.
Randomize ==
    /\ pc = "Enumerated"
    /\ EnoughCandidates(candidates)
    /\ \E sd \in Seeds :
          LET mem == RandomizeLinkedList(Mem, candidates,
                         SeededDraws(Cardinality(candidates), sd))
              size == SizeOfLinkedList(mem.next, Min(candidates))
          IN /\ seed' = sd
             /\ next' = mem.next
             /\ prev' = mem.prev
             /\ count' = size
             /\ IF size = Cardinality(candidates)
                THEN pc' = "Chained" /\ error' = error
                ELSE Abort("ChainSize")
    /\ UNCHANGED <<platform, setIndex, array, candidates, sliceOf,
                   candidateSetHead, conflictSetHead, candidate, i,
                   evictionSetHeads, evictionSet, testNode, missToDRAM,
                   probed, conflictNodes, witnesses, probeVars, harnessVars,
                   run, firstRings>>

\* The average latency a sanity oracle measures is inside its window on the
\* ideal platform and anything on the noisy one.
OraclePasses == IF platform = "ideal" THEN {TRUE} ELSE BOOLEAN

\* Line 365: SanityCheckCandidates.
SanityCheckCandidates ==
    /\ pc = "Chained"
    /\ \E ok \in OraclePasses :
          IF ok THEN pc' = "Seeding" /\ error' = error
          ELSE Abort("SanityCheckCandidates")
    /\ UNCHANGED <<platform, setIndex, array, candidates, sliceOf, next, prev,
                   candidateSetHead, conflictSetHead, candidate, count, i,
                   evictionSetHeads, evictionSet, testNode, missToDRAM,
                   probed, conflictNodes, witnesses, probeVars, harnessVars,
                   rerunVars>>

\* Lines 387-400: the first WAYS_PER_BANK nodes after *candidates.begin()
\* are cut out as the conflict ring.
SeedRings(mem, first) ==
    LET cfHead == first
        cdHead == Follow(mem.next, first, WAYS_PER_BANK)
        conflictSetTail == mem.prev[cdHead]
        candidateSetTail == mem.prev[cfHead]
        pv1 == [mem.prev EXCEPT ![cdHead] = candidateSetTail]
        nx1 == [mem.next EXCEPT ![candidateSetTail] = cdHead]
        pv2 == [pv1 EXCEPT ![cfHead] = conflictSetTail]
        nx2 == [nx1 EXCEPT ![conflictSetTail] = cfHead]
    IN [next |-> nx2, prev |-> pv2,
        conflictSetHead |-> cfHead, candidateSetHead |-> cdHead]

\* Lines 387-413.
SeedConflictSet ==
    /\ pc = "Seeding"
    /\ LET r == SeedRings(Mem, Min(candidates)) IN
          /\ next' = r.next
          /\ prev' = r.prev
          /\ conflictSetHead' = r.conflictSetHead
          /\ candidateSetHead' = r.candidateSetHead
          /\ candidate' = r.candidateSetHead
          /\ IF SizeOfLinkedList(r.next, r.conflictSetHead) # WAYS_PER_BANK
             THEN Abort("SeedSize") /\ count' = count
             ELSE IF SizeOfLinkedList(r.next, r.candidateSetHead)
                        # Cardinality(candidates) - WAYS_PER_BANK
             THEN Abort("LeftoverSize") /\ count' = count
             ELSE pc' = "Warmup" /\ error' = error /\ count' = WAYS_PER_BANK
    /\ i' = 0
    /\ UNCHANGED <<platform, setIndex, array, candidates, sliceOf,
                   evictionSetHeads, evictionSet, testNode, missToDRAM,
                   probed, conflictNodes, witnesses, probeVars, harnessVars,
                   rerunVars>>

\* Lines 416-419: the warmup probes; their answers are dropped.
Warmup ==
    /\ pc = "Warmup"
    /\ i < WARMUP_PROBES
    /\ \E r \in Probe(next, conflictSetHead, candidate) : TRUE
    /\ probed' = TRUE
    /\ i' = i + 1
    /\ pc' = IF i + 1 = WARMUP_PROBES THEN "ConflictGrowing" ELSE pc
    /\ UNCHANGED <<error, platform, setIndex, array, candidates, sliceOf,
                   next, prev, candidateSetHead, conflictSetHead, candidate,
                   count, evictionSetHeads, evictionSet, testNode,
                   missToDRAM, conflictNodes, witnesses, probeVars, harnessVars,
                   rerunVars>>

\* Mutant of MoveToConflict: the handle of the leftover ring stays where it
\* is.
MoveToConflictKeepHead(mem, cand, cdHead, cfHead) ==
    LET nxt == mem.next[cand]
        prv == mem.prev[cand]
        pv1 == [mem.prev EXCEPT ![nxt] = prv]
        nx1 == [mem.next EXCEPT ![prv] = nxt]
        m2 == InsertBefore([next |-> nx1, prev |-> pv1], cand, cfHead)
    IN [next |-> m2.next, prev |-> m2.prev,
        candidateSetHead |-> cdHead,
        candidate |-> nxt]

\* Lines 430-449: the cursor candidate moves to the conflict ring.
MoveToConflict(mem, cand, cdHead, cfHead) ==
    LET nxt == mem.next[cand]
        prv == mem.prev[cand]
        pv1 == [mem.prev EXCEPT ![nxt] = prv]
        nx1 == [mem.next EXCEPT ![prv] = nxt]
        m2 == InsertBefore([next |-> nx1, prev |-> pv1], cand, cfHead)
    IN [next |-> m2.next, prev |-> m2.prev,
        candidateSetHead |-> IF cand = cdHead THEN nxt ELSE cdHead,
        candidate |-> nxt]

\* Mutant of the growth loop: the candidates that are evicted are moved.
GrowEvicted ==
    /\ pc = "ConflictGrowing"
    /\ count < CONFLICT_SET_SIZE
    /\ \E miss \in Probe(next, conflictSetHead, candidate) :
          /\ missToDRAM' = miss
          /\ IF miss
             THEN LET r == MoveToConflict(Mem, candidate, candidateSetHead,
                                          conflictSetHead)
                  IN /\ count' = count + 1
                     /\ next' = r.next
                     /\ prev' = r.prev
                     /\ candidateSetHead' = r.candidateSetHead
                     /\ candidate' = r.candidate
             ELSE /\ candidate' = next[candidate]
                  /\ UNCHANGED <<count, next, prev, candidateSetHead>>
    /\ probed' = TRUE
    /\ UNCHANGED <<pc, error, platform, setIndex, array, candidates, sliceOf,
                   conflictSetHead, i, evictionSetHeads, evictionSet,
                   testNode, conflictNodes, witnesses, probeVars, harnessVars,
                   rerunVars>>

\* Lines 422-454: one iteration of the conflict-growth loop.
Grow ==
    /\ pc = "ConflictGrowing"
    /\ count < CONFLICT_SET_SIZE
    /\ \E miss \in Probe(next, conflictSetHead, candidate) :
          /\ missToDRAM' = miss
          /\ IF ~miss
             THEN LET r == MoveToConflict(Mem, candidate, candidateSetHead,
                                          conflictSetHead)
                  IN /\ count' = count + 1
                     /\ next' = r.next
                     /\ prev' = r.prev
                     /\ candidateSetHead' = r.candidateSetHead
                     /\ candidate' = r.candidate
             ELSE /\ candidate' = next[candidate]
                  /\ UNCHANGED <<count, next, prev, candidateSetHead>>
    /\ probed' = TRUE
    /\ UNCHANGED <<pc, error, platform, setIndex, array, candidates, sliceOf,
                   conflictSetHead, i, evictionSetHeads, evictionSet,
                   testNode, conflictNodes, witnesses, probeVars, harnessVars,
                   rerunVars>>

\* Lines 456-480: the loop has ended; both rings are measured.
GrowDone ==
    /\ pc = "ConflictGrowing"
    /\ count >= CONFLICT_SET_SIZE
    /\ LET cf == SizeOfLinkedList(next, conflictSetHead)
           cd == SizeOfLinkedList(next, candidateSetHead)
       IN \E ok \in OraclePasses :
            /\ IF cf # CONFLICT_SET_SIZE
               THEN Abort("ConflictSize") /\ count' = cf
               ELSE IF ~ok
               THEN Abort("SanityCheckConflictSet") /\ count' = cf
               ELSE IF cd # Cardinality(candidates) - CONFLICT_SET_SIZE
               THEN Abort("LeftoverSize") /\ count' = cd
               ELSE pc' = "Search" /\ error' = error /\ count' = cd
    /\ conflictNodes' = RingNodes(next, conflictSetHead)
    /\ candidate' = candidateSetHead
    /\ UNCHANGED <<platform, setIndex, array, candidates, sliceOf, next, prev,
                   candidateSetHead, conflictSetHead, i, evictionSetHeads,
                   evictionSet, testNode, missToDRAM, probed, witnesses,
                   probeVars, harnessVars, rerunVars>>

\* Mutant of DropCandidate: the cursor stays on the node that was unlinked.
DropCandidateKeepCursor(mem, cand) ==
    LET m == UnlinkPrevFirst(mem, cand)
    IN [next |-> m.next, prev |-> m.prev, candidate |-> cand]

\* Lines 514-518, 543-547 and 641-645 after the assertion: the cursor
\* candidate leaves the leftover ring and the cursor moves to its successor.
DropCandidate(mem, cand) ==
    LET m == UnlinkPrevFirst(mem, cand)
    IN [next |-> m.next, prev |-> m.prev, candidate |-> m.next[cand]]

\* Mutant of Search: the candidates that are evicted are dropped.
SearchDropEvicted ==
    /\ pc = "Search"
    /\ \E miss \in Probe(next, conflictSetHead, candidate) :
          /\ missToDRAM' = miss
          /\ IF ~miss
             THEN /\ pc' = "Confirm"
                  /\ i' = 0
                  /\ UNCHANGED <<error, next, prev, candidate>>
             ELSE IF next[candidate] = candidate
             THEN /\ Abort("NoCandidatesLeft")
                  /\ UNCHANGED <<i, next, prev, candidate>>
             ELSE LET r == DropCandidate(Mem, candidate)
                  IN /\ next' = r.next
                     /\ prev' = r.prev
                     /\ candidate' = r.candidate
                     /\ UNCHANGED <<pc, error, i>>
    /\ probed' = TRUE
    /\ UNCHANGED <<platform, setIndex, array, candidates, sliceOf,
                   candidateSetHead, conflictSetHead, count,
                   evictionSetHeads, evictionSet, testNode, conflictNodes,
                   witnesses, probeVars, harnessVars, rerunVars>>

\* Lines 505-524: a leftover candidate is probed against the conflict ring;
\* one that is not evicted is dropped.
Search ==
    /\ pc = "Search"
    /\ \E miss \in Probe(next, conflictSetHead, candidate) :
          /\ missToDRAM' = miss
          /\ IF miss
             THEN /\ pc' = "Confirm"
                  /\ i' = 0
                  /\ UNCHANGED <<error, next, prev, candidate>>
             ELSE IF next[candidate] = candidate
             THEN /\ Abort("NoCandidatesLeft")
                  /\ UNCHANGED <<i, next, prev, candidate>>
             ELSE LET r == DropCandidate(Mem, candidate)
                  IN /\ next' = r.next
                     /\ prev' = r.prev
                     /\ candidate' = r.candidate
                     /\ UNCHANGED <<pc, error, i>>
    /\ probed' = TRUE
    /\ UNCHANGED <<platform, setIndex, array, candidates, sliceOf,
                   candidateSetHead, conflictSetHead, count,
                   evictionSetHeads, evictionSet, testNode, conflictNodes,
                   witnesses, probeVars, harnessVars, rerunVars>>

\* Lines 533-551: the possible witness is probed again; a single miss of the
\* eviction drops it, CONFIRM_PROBES evictions in a row start the scan
\* (lines 565-568).
Confirm ==
    /\ pc = "Confirm"
    /\ i < CONFIRM_PROBES
    /\ \E miss \in Probe(next, conflictSetHead, candidate) :
          /\ missToDRAM' = miss
          /\ IF miss
             THEN /\ i' = i + 1
                  /\ IF i + 1 = CONFIRM_PROBES
                     THEN /\ pc' = "Scan"
                          /\ evictionSet' = {}
                          /\ testNode' = conflictSetHead
                     ELSE UNCHANGED <<pc, evictionSet, testNode>>
                  /\ UNCHANGED <<error, next, prev, candidate>>
             ELSE IF next[candidate] = candidate
             THEN /\ Abort("NoCandidatesLeft")
                  /\ UNCHANGED <<i, next, prev, candidate, evictionSet,
                                 testNode>>
             ELSE LET r == DropCandidate(Mem, candidate)
                  IN /\ next' = r.next
                     /\ prev' = r.prev
                     /\ candidate' = r.candidate
                     /\ pc' = "Search"
                     /\ UNCHANGED <<error, i, evictionSet, testNode>>
    /\ probed' = TRUE
    /\ UNCHANGED <<platform, setIndex, array, candidates, sliceOf,
                   candidateSetHead, conflictSetHead, count,
                   evictionSetHeads, conflictNodes, witnesses, probeVars, harnessVars,
                   rerunVars>>

\* Lines 574-578: a test node that is already marked is passed over.
ScanSkip ==
    /\ pc = "Scan"
    /\ Cardinality(evictionSet) < WAYS_PER_BANK
    /\ testNode \in evictionSet
    /\ testNode' = next[testNode]
    /\ UNCHANGED <<pc, error, platform, setIndex, array, candidates, sliceOf,
                   next, prev, candidateSetHead, conflictSetHead, candidate,
                   count, i, evictionSetHeads, evictionSet, missToDRAM,
                   probed, conflictNodes, witnesses, probeVars, harnessVars,
                   rerunVars>>

\* Lines 580-582: the test node is taken out of the conflict ring.
ScanUnsplice ==
    /\ pc = "Scan"
    /\ Cardinality(evictionSet) < WAYS_PER_BANK
    /\ testNode \notin evictionSet
    /\ LET m == UnlinkPrevFirst(Mem, testNode) IN
          next' = m.next /\ prev' = m.prev
    /\ pc' = "ScanProbe"
    /\ UNCHANGED <<error, platform, setIndex, array, candidates, sliceOf,
                   candidateSetHead, conflictSetHead, candidate, count, i,
                   evictionSetHeads, evictionSet, testNode, missToDRAM,
                   probed, conflictNodes, witnesses, probeVars, harnessVars,
                   rerunVars>>

\* Lines 584-589: the witness is probed against the ring without the test
\* node, entered at the test node's successor.
ScanProbe ==
    /\ pc = "ScanProbe"
    /\ missToDRAM' \in Probe(next, next[testNode], candidate)
    /\ probed' = TRUE
    /\ pc' = "ScanResplice"
    /\ UNCHANGED <<error, platform, setIndex, array, candidates, sliceOf,
                   next, prev, candidateSetHead, conflictSetHead, candidate,
                   count, i, evictionSetHeads, evictionSet, testNode,
                   conflictNodes, witnesses, probeVars, harnessVars,
                   rerunVars>>

\* Mutant of the marking: the test nodes without which the witness is still
\* evicted are marked.
ScanRespliceMarkEvicting ==
    /\ pc = "ScanResplice"
    /\ LET m == Relink(Mem, testNode)
           marked == IF missToDRAM THEN evictionSet \cup {testNode}
                     ELSE evictionSet
       IN /\ next' = m.next
          /\ prev' = m.prev
          /\ evictionSet' = marked
          /\ testNode' = m.next[testNode]
          /\ pc' = IF Cardinality(marked) < WAYS_PER_BANK THEN "Scan"
                   ELSE "Splice"
    /\ UNCHANGED <<error, platform, setIndex, array, candidates, sliceOf,
                   candidateSetHead, conflictSetHead, candidate, count, i,
                   evictionSetHeads, missToDRAM, probed, conflictNodes,
                   witnesses, probeVars, harnessVars, rerunVars>>

\* Lines 591-604: the test node is put back, marked if the witness was no
\* longer evicted without it, and the scan moves on.
ScanResplice ==
    /\ pc = "ScanResplice"
    /\ LET m == Relink(Mem, testNode)
           marked == IF ~missToDRAM THEN evictionSet \cup {testNode}
                     ELSE evictionSet
       IN /\ next' = m.next
          /\ prev' = m.prev
          /\ evictionSet' = marked
          /\ testNode' = m.next[testNode]
          /\ pc' = IF Cardinality(marked) < WAYS_PER_BANK THEN "Scan"
                   ELSE "Splice"
    /\ UNCHANGED <<error, platform, setIndex, array, candidates, sliceOf,
                   candidateSetHead, conflictSetHead, candidate, count, i,
                   evictionSetHeads, missToDRAM, probed, conflictNodes,
                   witnesses, probeVars, harnessVars, rerunVars>>

\* Mutant of the splice loop: the conflict-ring handle is not advanced when
\* the node it names is spliced out.
RECURSIVE SpliceRestKeepHead(_, _, _)
SpliceRestKeepHead(st, evictionSetHead, rest) ==
    IF rest = {} THEN st
    ELSE LET node == Min(rest)
             m1 == UnlinkNextFirst(st, node)
             m2 == InsertBefore(m1, node, evictionSetHead)
         IN SpliceRestKeepHead([next |-> m2.next, prev |-> m2.prev,
                                conflictSetHead |-> st.conflictSetHead],
                               evictionSetHead, rest \ {node})

\* Mutant of the splice loop: a node is appended to the ring of
\* evictionSetHead without being unlinked from the conflict ring (lines
\* 626-627 left out).
RECURSIVE SpliceRestNoUnlink(_, _, _)
SpliceRestNoUnlink(st, evictionSetHead, rest) ==
    IF rest = {} THEN st
    ELSE LET node == Min(rest)
             head == IF node = st.conflictSetHead
                     THEN st.next[st.conflictSetHead]
                     ELSE st.conflictSetHead
             m2 == InsertBefore(st, node, evictionSetHead)
         IN SpliceRestNoUnlink([next |-> m2.next, prev |-> m2.prev,
                                conflictSetHead |-> head],
                               evictionSetHead, rest \ {node})

\* Lines 618-633: the marked nodes after the first, in address order, leave
\* the conflict ring and are appended to the ring of evictionSetHead.
RECURSIVE SpliceRest(_, _, _)
SpliceRest(st, evictionSetHead, rest) ==
    IF rest = {} THEN st
    ELSE LET node == Min(rest)
             head == IF node = st.conflictSetHead
                     THEN st.next[st.conflictSetHead]
                     ELSE st.conflictSetHead
             m1 == UnlinkNextFirst(st, node)
             m2 == InsertBefore(m1, node, evictionSetHead)
         IN SpliceRest([next |-> m2.next, prev |-> m2.prev,
                        conflictSetHead |-> head],
                       evictionSetHead, rest \ {node})

\* Mutant of the splice: the test of lines 609-611 is left out, the handle
\* stays on the first marked node.
SpliceOutKeepHandle(mem, cfHead, marked) ==
    LET evictionSetHead == Min(marked)
        m1 == UnlinkNextFirst(mem, evictionSetHead)
        nx2 == [m1.next EXCEPT ![evictionSetHead] = evictionSetHead]
        pv2 == [m1.prev EXCEPT ![evictionSetHead] = evictionSetHead]
    IN SpliceRest([next |-> nx2, prev |-> pv2, conflictSetHead |-> cfHead],
                  evictionSetHead, marked \ {evictionSetHead})

\* Mutant of the splice: evictionSetHead->prev is not reset (line 616).
SpliceOutStalePrev(mem, cfHead, marked) ==
    LET evictionSetHead == Min(marked)
        head == IF evictionSetHead = cfHead THEN mem.next[cfHead] ELSE cfHead
        m1 == UnlinkNextFirst(mem, evictionSetHead)
        nx2 == [m1.next EXCEPT ![evictionSetHead] = evictionSetHead]
    IN SpliceRest([next |-> nx2, prev |-> m1.prev, conflictSetHead |-> head],
                  evictionSetHead, marked \ {evictionSetHead})

\* Lines 608-633: the marked nodes become a ring of their own.
SpliceOut(mem, cfHead, marked) ==
    LET evictionSetHead == Min(marked)
        head == IF evictionSetHead = cfHead THEN mem.next[cfHead] ELSE cfHead
        m1 == UnlinkNextFirst(mem, evictionSetHead)
        nx2 == [m1.next EXCEPT ![evictionSetHead] = evictionSetHead]
        pv2 == [m1.prev EXCEPT ![evictionSetHead] = evictionSetHead]
    IN SpliceRest([next |-> nx2, prev |-> pv2, conflictSetHead |-> head],
                  evictionSetHead, marked \ {evictionSetHead})

\* Lines 606-638.
Splice ==
    /\ pc = "Splice"
    /\ LET st == SpliceOut(Mem, conflictSetHead, evictionSet) IN
          /\ next' = st.next
          /\ prev' = st.prev
          /\ conflictSetHead' = st.conflictSetHead
    /\ evictionSetHeads' = Append(evictionSetHeads, Min(evictionSet))
    /\ witnesses' = Append(witnesses, candidate)
    /\ pc' = "Retire"
    /\ UNCHANGED <<error, platform, setIndex, array, candidates, sliceOf,
                   candidateSetHead, candidate, count, i, evictionSet,
                   testNode, missToDRAM, probed, conflictNodes, probeVars, harnessVars,
                   rerunVars>>

\* Mutant of the loop test of line 498: one iteration too many.
RetireOneMore ==
    /\ pc = "Retire"
    /\ IF next[candidate] = candidate
       THEN /\ Abort("NoCandidatesLeft")
            /\ UNCHANGED <<next, prev, candidate>>
       ELSE LET r == DropCandidate(Mem, candidate)
            IN /\ next' = r.next
               /\ prev' = r.prev
               /\ candidate' = r.candidate
               /\ error' = error
               /\ pc' = IF Len(evictionSetHeads) < LLC_BANKS
                        THEN "Search" ELSE "Final"
    /\ UNCHANGED <<platform, setIndex, array, candidates, sliceOf,
                   candidateSetHead, conflictSetHead, count, i,
                   evictionSetHeads, evictionSet, testNode, missToDRAM,
                   probed, conflictNodes, witnesses, probeVars, harnessVars,
                   rerunVars>>

\* Lines 640-646 and the loop test of line 498: the witness is retired.
Retire ==
    /\ pc = "Retire"
    /\ IF next[candidate] = candidate
       THEN /\ Abort("NoCandidatesLeft")
            /\ UNCHANGED <<next, prev, candidate>>
       ELSE LET r == DropCandidate(Mem, candidate)
            IN /\ next' = r.next
               /\ prev' = r.prev
               /\ candidate' = r.candidate
               /\ error' = error
               /\ pc' = IF Len(evictionSetHeads) < LLC_BANKS - 1
                        THEN "Search" ELSE "Final"
    /\ UNCHANGED <<platform, setIndex, array, candidates, sliceOf,
                   candidateSetHead, conflictSetHead, count, i,
                   evictionSetHeads, evictionSet, testNode, missToDRAM,
                   probed, conflictNodes, witnesses, probeVars, harnessVars,
                   rerunVars>>

\* SanityCheckEvictionSets, lines 119-138: the size of each ring and the
\* number of distinct nodes in all of them.
RECURSIVE AllRingNodes(_, _)
AllRingNodes(nx, heads) ==
    IF heads = <<>> THEN {}
    ELSE RingNodes(nx, Head(heads)) \cup AllRingNodes(nx, Tail(heads))

EvictionSetSizesOk(nx, heads) ==
    \A j \in 1..Len(heads) : SizeOfLinkedList(nx, heads[j]) = WAYS_PER_BANK

EvictionSetsDisjoint(nx, heads) ==
    Cardinality(AllRingNodes(nx, heads)) = CONFLICT_SET_SIZE

\* Lines 648-660: the rest of the conflict ring is the last eviction set;
\* the sets are checked and returned.
Finish ==
    /\ pc = "Final"
    /\ LET heads == Append(evictionSetHeads, conflictSetHead) IN
          /\ evictionSetHeads' = heads
          /\ \E ok \in OraclePasses :
                IF ~EvictionSetSizesOk(next, heads)
                THEN Abort("EvictionSetSize")
                ELSE IF ~EvictionSetsDisjoint(next, heads)
                THEN Abort("EvictionSetsOverlap")
                ELSE IF ~ok
                THEN Abort("SanityCheckEvictionSets")
                ELSE pc' = "Done" /\ error' = error
    /\ UNCHANGED <<platform, setIndex, array, candidates, sliceOf, next, prev,
                   candidateSetHead, conflictSetHead, candidate, count, i,
                   evictionSet, testNode, missToDRAM, probed, conflictNodes,
                   witnesses, probeVars, harnessVars, rerunVars>>

Next ==
    \/ Allocate(ArrayBases, ArraySizes)
    \/ EnumerateCandidates
    \/ InsufficientCandidates
    \/ Randomize
    \/ SanityCheckCandidates
    \/ SeedConflictSet
    \/ Warmup
    \/ Grow
    \/ GrowDone
    \/ Search
    \/ Confirm
    \/ ScanSkip
    \/ ScanUnsplice
    \/ ScanProbe
    \/ ScanResplice
    \/ Splice
    \/ Retire
    \/ Finish

Spec == Init /\ [][Next]_vars

(***************************************************************************)
(* FindCandidates on its own, over more base addresses and set indices.    *)
(***************************************************************************)
FindBases ==
    {0, CACHE_LINE_SIZE, 4194304, 4194304 + CACHE_LINE_SIZE * 100,
     65536 + CACHE_LINE_SIZE * 1023, 131072 - CACHE_LINE_SIZE * 2,
     1073741824 + CACHE_LINE_SIZE * 2047, 268435456 + 65536}

FindSetIndices ==
    {0, 1, CACHE_SET_ATTACKER, 1023, 1024, CACHE_SET_VICTIM,
     SETS_PER_BANK - 1}

SpecFindInit ==
    /\ pc = "NeedRegion"
    /\ error = "none"
    /\ platform = "noisy"
    /\ setIndex \in FindSetIndices
    /\ array = NoArray
    /\ candidates = {}
    /\ sliceOf = <<>>
    /\ next = <<>>
    /\ prev = <<>>
    /\ candidateSetHead = NULL
    /\ conflictSetHead = NULL
    /\ candidate = NULL
    /\ count = 0
    /\ i = 0
    /\ evictionSetHeads = <<>>
    /\ evictionSet = {}
    /\ testNode = NULL
    /\ missToDRAM = FALSE
    /\ probed = FALSE
    /\ conflictNodes = {}
    /\ witnesses = <<>>
    /\ InitProbeIdle
    /\ InitHarness
    /\ InitRerun

NextFind ==
    \/ Allocate(FindBases, {FindEntries})
    \/ EnumerateCandidates

SpecFind == SpecFindInit /\ [][NextFind]_vars

(***************************************************************************)
(* RandomizeLinkedList on its own, over every outcome of the shuffle.      *)
(***************************************************************************)
ShuffleNodes == 0..MaxShuffleLen

SpecShuffleInit ==
    /\ pc = "Shuffle"
    /\ error = "none"
    /\ platform = "noisy"
    /\ setIndex = 0
    /\ array = NoArray
    /\ candidates \in {S \in SUBSET ShuffleNodes :
                          Cardinality(S) \in 1..MaxShuffleLen}
    /\ sliceOf = <<>>
    /\ next = <<>>
    /\ prev = <<>>
    /\ candidateSetHead = NULL
    /\ conflictSetHead = NULL
    /\ candidate = NULL
    /\ count = 0
    /\ i = 0
    /\ evictionSetHeads = <<>>
    /\ evictionSet = {}
    /\ testNode = NULL
    /\ missToDRAM = FALSE
    /\ probed = FALSE
    /\ conflictNodes = {}
    /\ witnesses = <<>>
    /\ InitProbeIdle
    /\ InitHarness
    /\ InitRerun

\* Line 355 with any draws, then line 358.
Shuffle ==
    /\ pc = "Shuffle"
    /\ \E draws \in AllDraws(Cardinality(candidates)) :
          LET mem == RandomizeLinkedList(Mem, candidates, draws) IN
             /\ next' = mem.next
             /\ prev' = mem.prev
             /\ count' = SizeOfLinkedList(mem.next, Min(candidates))
    /\ pc' = "Shuffled"
    /\ UNCHANGED <<error, platform, setIndex, array, candidates, sliceOf,
                   candidateSetHead, conflictSetHead, candidate, i,
                   evictionSetHeads, evictionSet, testNode, missToDRAM,
                   probed, conflictNodes, witnesses, probeVars, harnessVars,
                   rerunVars>>

NextShuffle == Shuffle

SpecShuffle == SpecShuffleInit /\ [][NextShuffle]_vars

(***************************************************************************)
(* Probe, step by step (lines 257-316).                                    *)
(***************************************************************************)
\* Latencies the timed re-read may show, plausible or not.
MeasuredTimes ==
    {0, PROBE_MIN_TIME - 1, PROBE_MIN_TIME, LLC_HIT_TIME, LLC_CYCLE_THRESHOLD,
     LLC_CYCLE_THRESHOLD + 1, DRAM_TIME, PROBE_MAX_TIME, PROBE_MAX_TIME + 1}

\* const uint64_t iterations = 100 * WAYS_PER_BANK * LLC_BANKS;
ProbeIterations == 100 * WAYS_PER_BANK * LLC_BANKS

\* while (time < 20 || time > 200)
Implausible(t) == t < PROBE_MIN_TIME \/ t > PROBE_MAX_TIME

\* Rings Probe is called on: r nodes in a cycle, entered at node 0; the
\* candidate is a node outside of the ring.
ProbeRingSizes == 1..3

SpecProbeInit ==
    /\ pc = "ProbeCall"
    /\ error = "none"
    /\ platform = "noisy"
    /\ setIndex = 0
    /\ array = NoArray
    /\ candidates = {}
    /\ sliceOf = <<>>
    /\ \E r \in ProbeRingSizes :
          /\ next = [n \in 0..(r - 1) |-> (n + 1) % r]
          /\ prev = [n \in 0..(r - 1) |-> (n + r - 1) % r]
          /\ candidate = r
    /\ candidateSetHead = NULL
    /\ conflictSetHead = 0
    /\ count = 0
    /\ i = 0
    /\ evictionSetHeads = <<>>
    /\ evictionSet = {}
    /\ testNode = NULL
    /\ missToDRAM = FALSE
    /\ probed = FALSE
    /\ conflictNodes = {}
    /\ witnesses = <<>>
    /\ InitProbeIdle
    /\ InitHarness
    /\ InitRerun

\* Lines 259-265: the locals of a call.
ProbeEnter ==
    /\ pc = "ProbeCall"
    /\ currentNode' = conflictSetHead
    /\ time' = 0
    /\ attempts' = 0
    /\ protocol' = <<>>
    /\ history' = <<>>
    /\ probed' = TRUE
    /\ pc' = "ProbeLoop"
    /\ UNCHANGED <<harnessVars, calleeFrame, missToDRAM, rerunVars>>

\* Line 267 when the loop goes on: the last latency, if any, is discarded.
ProbeRetry ==
    /\ pc = "ProbeLoop"
    /\ Implausible(time)
    /\ protocol' = <<>>
    /\ history' = IF attempts > 0 /\ Len(history) < MaxAttempts
                  THEN Append(history, time) ELSE history
    /\ pc' = "ProbeTraverse1"
    /\ UNCHANGED <<harnessVars, calleeFrame, missToDRAM, probed, time, attempts,
                   currentNode, rerunVars>>

\* Lines 270-274: the ring is traversed.
ProbeTraverse1 ==
    /\ pc = "ProbeTraverse1"
    /\ currentNode' = Follow(next, currentNode, ProbeIterations)
    /\ protocol' = Append(protocol, "traverse")
    /\ pc' = "ProbeRead"
    /\ UNCHANGED <<harnessVars, calleeFrame, missToDRAM, probed, time, attempts, history,
            rerunVars>>

\* Lines 276-278: the candidate is read.
ProbeRead ==
    /\ pc = "ProbeRead"
    /\ protocol' = Append(protocol, "read")
    /\ pc' = "ProbeTraverse2"
    /\ UNCHANGED <<harnessVars, calleeFrame, missToDRAM, probed, time, attempts, history,
                   currentNode, rerunVars>>

\* Lines 288-290: the ring is traversed again.
ProbeTraverse2 ==
    /\ pc = "ProbeTraverse2"
    /\ currentNode' = Follow(next, currentNode, ProbeIterations)
    /\ protocol' = Append(protocol, "traverse")
    /\ pc' = "ProbeTimedRead"
    /\ UNCHANGED <<harnessVars, calleeFrame, missToDRAM, probed, time, attempts, history,
            rerunVars>>

\* Lines 294-312: the candidate is read again and the read is timed.
ProbeTimedRead ==
    /\ pc = "ProbeTimedRead"
    /\ time' \in MeasuredTimes
    /\ attempts' = IF attempts < MaxAttempts THEN attempts + 1 ELSE attempts
    /\ protocol' = Append(protocol, "timed read")
    /\ pc' = "ProbeLoop"
    /\ UNCHANGED <<harnessVars, calleeFrame, missToDRAM, probed, history, currentNode,
            rerunVars>>

\* Lines 267 and 315: the loop ends and the answer is returned.
ProbeExit ==
    /\ pc = "ProbeLoop"
    /\ ~Implausible(time)
    /\ missToDRAM' = ProbeReturn(time)
    /\ pc' = "ProbeReturned"
    /\ UNCHANGED <<calleeFrame, probed, probeVars, harnessVars, rerunVars>>

NextProbe ==
    \/ ProbeEnter
    \/ ProbeRetry
    \/ ProbeTraverse1
    \/ ProbeRead
    \/ ProbeTraverse2
    \/ ProbeTimedRead
    \/ ProbeExit

SpecProbe == SpecProbeInit /\ [][NextProbe]_vars

\* The thread that runs Probe keeps running: every step of the call that can
\* be taken is taken.
FairSpecProbe == SpecProbe /\ WF_vars(NextProbe)

(***************************************************************************)
(* Properties.                                                             *)
(***************************************************************************)
\* The rings GetEvictionSet hands to SanityCheckEvictionSets and returns.
OutputRings ==
    IF pc = "Final" THEN Append(evictionSetHeads, conflictSetHead)
    ELSE evictionSetHeads

Returning == pc \in {"Final", "Done"}

OutputNodes(j) == RingNodes(next, OutputRings[j])

\* The set field an address selects: (addr >> line bits) mod 2^(index bits).
SetFieldOf(address) ==
    ShiftRight(address, NUM_CACHE_LINE_BITS) % (2 ^ NUM_SET_INDEX_BITS)

\* C1: whenever GetEvictionSet reaches its final check or returns, there are
\* exactly LLC_BANKS ring handles and each denotes a well-formed
\* doubly-linked cycle of exactly WAYS_PER_BANK nodes, whatever the Probe
\* calls answered.
C1_ReturnedRingsWellFormed ==
    Returning =>
        /\ Len(OutputRings) = LLC_BANKS
        /\ \A j \in 1..Len(OutputRings) :
              WellFormedRing(next, prev, OutputRings[j], WAYS_PER_BANK)

C1_Witness ==
    /\ pc = "Done"
    /\ platform = "noisy"
    /\ Len(evictionSetHeads) = LLC_BANKS

\* C2: the returned rings are pairwise disjoint and their union is the node
\* set of the conflict ring as it stood when conflict growth ended, which
\* has LLC_BANKS * WAYS_PER_BANK nodes.
C2_ReturnedRingsPartitionConflictSet ==
    Returning =>
        /\ \A j, l \in 1..Len(OutputRings) :
              j # l => OutputNodes(j) \cap OutputNodes(l) = {}
        /\ UNION {OutputNodes(j) : j \in 1..Len(OutputRings)} = conflictNodes
        /\ Cardinality(conflictNodes) = LLC_BANKS * WAYS_PER_BANK

C2_Witness ==
    /\ pc = "Done"
    /\ platform = "noisy"
    /\ Cardinality(conflictNodes) = CONFLICT_SET_SIZE
    /\ conflictSetHead # Min(conflictNodes)

\* The candidate pool holds at least WAYS_PER_BANK + 1 nodes of every bank.
PoolCoversEveryBank ==
    \A b \in Banks :
        Cardinality({n \in candidates : sliceOf[n] = b}) >= WAYS_PER_BANK + 1

\* C3: with an exact Probe and a pool of at least WAYS_PER_BANK + 1 nodes of
\* every bank, every returned ring holds nodes of one bank only, different
\* rings belong to different banks, and the ring spliced out for a witness
\* is exactly the set of conflict-ring nodes of the witness's bank: it
\* evicts the witness, and all the other rings together do not.
C3_RingsAreBanks ==
    (platform = "ideal" /\ Returning /\ PoolCoversEveryBank) =>
        /\ \A j \in 1..Len(OutputRings) :
              \A n, m \in OutputNodes(j) : sliceOf[n] = sliceOf[m]
        /\ \A j, l \in 1..Len(OutputRings) :
              j # l => sliceOf[OutputRings[j]] # sliceOf[OutputRings[l]]
        /\ \A j \in 1..Len(witnesses) :
              LET w == witnesses[j]
                  others == UNION {OutputNodes(l) :
                                     l \in (1..Len(OutputRings)) \ {j}}
              IN /\ OutputNodes(j) =
                        {n \in conflictNodes : sliceOf[n] = sliceOf[w]}
                 /\ EvictedBy(OutputNodes(j), w)
                 /\ ~EvictedBy(others, w)

C3_Witness ==
    /\ platform = "ideal"
    /\ pc = "Done"
    /\ PoolCoversEveryBank
    /\ Len(witnesses) = LLC_BANKS - 1

\* The number of nodes of bank b in the ring entered at h.
BankCount(h, b) == Cardinality({n \in RingNodes(next, h) : sliceOf[n] = b})

\* The conflict-growth loop has ended and nothing was spliced out yet.
GrowthEnded ==
    \/ pc = "ConflictGrowing" /\ count >= CONFLICT_SET_SIZE
    \/ pc \in {"Search", "Confirm"} /\ evictionSetHeads = <<>>

\* C4: with an exact Probe, no bank ever has more than WAYS_PER_BANK nodes in
\* the conflict ring (seed included); when the growth loop ends the ring
\* holds exactly WAYS_PER_BANK nodes of each bank and Probe of every
\* candidate left in the leftover ring against it answers true.
C4_ConflictSetCoversEveryBank ==
    platform = "ideal" =>
        /\ (pc \in {"Warmup", "ConflictGrowing"} \/ GrowthEnded) =>
              \A b \in Banks : BankCount(conflictSetHead, b) <= WAYS_PER_BANK
        /\ GrowthEnded =>
              /\ \A b \in Banks :
                    BankCount(conflictSetHead, b) = WAYS_PER_BANK
              /\ \A c \in RingNodes(next, candidateSetHead) :
                    Probe(next, conflictSetHead, c) = {TRUE}

C4_Witness ==
    /\ platform = "ideal"
    /\ pc = "Search"
    /\ evictionSetHeads = <<>>
    /\ Cardinality(RingNodes(next, candidateSetHead)) >= CONFLICT_SET_SIZE

\* Every node some next or prev field points to or is stored in.
LinkedNodes ==
    (DOMAIN next) \cup (DOMAIN prev)
        \cup {next[n] : n \in DOMAIN next} \cup {prev[n] : n \in DOMAIN prev}

\* C5: every node of every returned ring is a candidate, and its address
\* bits 6..16 equal setIndex; at no time does a next or prev field, a ring
\* handle or the cursor name a node outside of the candidate set.
C5_OnlyCandidatesAreLinked ==
    /\ \A n \in candidates \cup LinkedNodes :
          /\ n \in candidates
          /\ SetFieldOf(AddressOf(array.base, n)) = setIndex
    /\ \A n \in {candidateSetHead, conflictSetHead, candidate, testNode} :
          n = NULL \/ n \in candidates
    /\ Returning =>
          \A j \in 1..Len(OutputRings) : OutputNodes(j) \subseteq candidates

C5_Witness ==
    /\ pc = "Done"
    /\ Cardinality(candidates) > 2 * CONFLICT_SET_SIZE
    /\ \E j \in 1..Len(evictionSetHeads) :
          Min(candidates) \notin RingNodes(next, evictionSetHeads[j])

\* C6: FindCandidates inserts a node iff the set field of its address,
\* (addr >> NUM_CACHE_LINE_BITS) mod 2^NUM_SET_INDEX_BITS, equals setIndex,
\* for aligned addresses and set indices below SETS_PER_BANK.
C6_MaskTestIsSetField ==
    pc = "Enumerated" =>
        /\ setIndex \in 0..(SETS_PER_BANK - 1)
        /\ array.base % CACHE_LINE_SIZE = 0
        /\ candidates =
              {n \in 0..(array.entries - 1) :
                  SetFieldOf(AddressOf(array.base, n)) = setIndex}

C6_Witness ==
    /\ pc = "Enumerated"
    /\ Cardinality(candidates) = 2
    /\ setIndex = SETS_PER_BANK - 1
    /\ array.base > 2 ^ 17

\* C7: after RandomizeLinkedList the candidates form one closed ring: from
\* any candidate, next visits every candidate once and is back after
\* exactly k steps, and prev is the inverse of next.
C7_ShuffledChainIsOneRing ==
    pc = "Shuffled" =>
        /\ DOMAIN next = candidates
        /\ DOMAIN prev = candidates
        /\ count = Cardinality(candidates)
        /\ \A n \in candidates :
              /\ RingNodes(next, n) = candidates
              /\ WellFormedRing(next, prev, n, Cardinality(candidates))

C7_Witness ==
    /\ pc = "Shuffled"
    /\ Cardinality(candidates) = MaxShuffleLen
    /\ next[Min(candidates)] # Min(candidates \ {Min(candidates)})

\* The four steps of one round of Probe, in order.
ProbeProtocol == <<"traverse", "read", "traverse", "timed read">>

\* C8: Probe returns only after a measurement within [20, 200] and then
\* answers true iff it is above LLC_CYCLE_THRESHOLD; every other measurement
\* was discarded, and each measurement, the returned one included, closes a
\* full round of the protocol run in order.
C8_ProbeClassifiesPlausibleTime ==
    /\ pc = "ProbeReturned" =>
          /\ time >= 20 /\ time <= 200
          /\ missToDRAM = (time > 100)
          /\ attempts >= 1
          /\ protocol = ProbeProtocol
          /\ \A j \in 1..Len(history) : history[j] < 20 \/ history[j] > 200
          /\ attempts < MaxAttempts => Len(history) = attempts - 1
    /\ (pc = "ProbeLoop" /\ attempts > 0) => protocol = ProbeProtocol
    /\ (pc \in {"ProbeTraverse1", "ProbeRead", "ProbeTraverse2",
                "ProbeTimedRead"}) =>
          /\ protocol = SubSeq(ProbeProtocol, 1, Len(protocol))
          /\ attempts > 0 => (time < 20 \/ time > 200)

C8_Witness ==
    /\ pc = "ProbeReturned"
    /\ time = 101
    /\ missToDRAM
    /\ Len(history) = 2

\* C9: a Probe call always terminates: it returns an answer or stops with
\* ProbeUnstable, even if every measurement is implausible.
C9_ProbeTerminates == <>(pc \in {"ProbeReturned", "ProbeUnstable"})

\* C10: with fewer than 2 * LLC_BANKS * WAYS_PER_BANK candidates the builder
\* stops at the check: nothing was chained or relinked, no Probe was issued
\* and no ring is returned.
C10_TooFewCandidatesFailsEarly ==
    (pc \notin {"NeedRegion", "Allocated", "Enumerated"}
        /\ Cardinality(candidates) < 2 * LLC_BANKS * WAYS_PER_BANK) =>
        /\ pc = "Aborted"
        /\ error = "InsufficientCandidates"
        /\ next = <<>> /\ prev = <<>>
        /\ ~probed
        /\ evictionSetHeads = <<>>
        /\ conflictSetHead = NULL /\ candidateSetHead = NULL

C10_Witness ==
    /\ pc = "Aborted"
    /\ error = "InsufficientCandidates"
    /\ Cardinality(candidates) = 2 * LLC_BANKS * WAYS_PER_BANK - 1

(***************************************************************************)
(* The phases of a builder invocation.                                     *)
(***************************************************************************)
GrowingPcs == {"Warmup", "ConflictGrowing"}

PartitioningPcs ==
    {"Search", "Confirm", "Scan", "ScanProbe", "ScanResplice", "Splice",
     "Retire"}

\* NeedRegion, Enumerated, Chained, ConflictGrowing, Partitioning, Done; a
\* failed assertion ends the invocation for good.
PhaseRank(p) ==
    CASE p \in {"NeedRegion", "Allocated"} -> 0
      [] p = "Enumerated" -> 1
      [] p \in {"Chained", "Seeding"} -> 2
      [] p \in GrowingPcs -> 3
      [] p \in PartitioningPcs -> 4
      [] p \in {"Final", "Done"} -> 5
      [] p = "Aborted" -> 6

\* The index i of Partitioning(i): the rings spliced out so far.
PartitionIndex == Len(evictionSetHeads)

\* The nodes of the conflict ring; the test node that the scan holds out for
\* one Probe (lines 580-593) still belongs to it.
ConflictRing ==
    RingNodes(next, conflictSetHead)
        \cup (IF pc \in {"ScanProbe", "ScanResplice"} THEN {testNode} ELSE {})

AbortProcess ==
    /\ mainPc' = "Exited"
    /\ exitStatus' = "SIGABRT"

\* A fault of a read outside of mapped memory.
Fault ==
    /\ mainPc' = "Exited"
    /\ exitStatus' = "SIGSEGV"

\* __rdtsc(): the counter has moved on at every read.
Tick == {clock + 1}

\* The builder's variables but the links of the nodes.
builderLocals == <<pc, error, platform, setIndex, array, candidates, sliceOf,
                   candidateSetHead, conflictSetHead, candidate, count, i,
                   evictionSetHeads, evictionSet, testNode, missToDRAM,
                   probed, conflictNodes, witnesses>>

\* The rings a successful call of GetEvictionSet leaves in the array of
\* `who` (arrayAttacker, arrayVictim): ring b has WAYS_PER_BANK nodes and
\* its handle, element b of the vector returned, is node 0 of the ring.
BuiltNodes(who) ==
    {<<who, b, k>> : b \in Banks, k \in 0..(WAYS_PER_BANK - 1)}

HandleNode(who, ring) == <<who, ring, 0>>

\* The links with those rings in place: step is 1 for next and
\* WAYS_PER_BANK - 1 for prev.
Built(links, who, step) ==
    [n \in (DOMAIN links) \cup BuiltNodes(who) |->
        IF n \in BuiltNodes(who)
        THEN <<n[1], n[2], (n[3] + step) % WAYS_PER_BANK>>
        ELSE links[n]]

\* Mutant: the asserts are compiled out, a failed check is passed over.
BuildAttackerSetsUnchecked ==
    /\ mainPc = "BuildAttacker"
    /\ exitStatus = "running"
    /\ \E outcome \in GetEvictionSetOutcomes :
          /\ evictionSetsAttacker' = ReturnedRings
          /\ next' = Built(next, "attacker", 1)
          /\ prev' = Built(prev, "attacker", WAYS_PER_BANK - 1)
          /\ mainPc' = "BuildVictim"
          /\ builderError' = IF outcome = "Done" THEN builderError ELSE outcome
    /\ UNCHANGED <<builderLocals, probeVars, exitStatus, evictionSetsVictim,
                   profiler, closestBank, numVictimThreads, bank,
                   victimIndex, attackers, victims, attackerTimesArray,
                   arrayWriter, victimBankBoundaries, clock, adjacent,
                   fileConstant, filePerBank, boundaries, timesRead,
                   rerunVars>>

\* Line 190: CreateEvictionSets(&arrayAttacker, &evictionSetsAttacker, ...).
BuildAttackerSets ==
    /\ mainPc = "BuildAttacker"
    /\ exitStatus = "running"
    /\ \E outcome \in GetEvictionSetOutcomes :
          IF outcome = "Done"
          THEN /\ evictionSetsAttacker' = ReturnedRings
               /\ next' = Built(next, "attacker", 1)
               /\ prev' = Built(prev, "attacker", WAYS_PER_BANK - 1)
               /\ mainPc' = "BuildVictim"
               /\ UNCHANGED <<exitStatus, builderError>>
          ELSE /\ AbortProcess
               /\ builderError' = outcome
               /\ UNCHANGED <<evictionSetsAttacker, next, prev>>
    /\ UNCHANGED <<builderLocals, probeVars, evictionSetsVictim, profiler,
                   closestBank, numVictimThreads, bank, victimIndex,
                   attackers, victims, attackerTimesArray, arrayWriter,
                   victimBankBoundaries, clock, adjacent, fileConstant,
                   filePerBank, boundaries, timesRead, rerunVars>>

\* Line 192: CreateEvictionSets(&arrayVictim, &evictionSetsVictim, ...).
BuildVictimSets ==
    /\ mainPc = "BuildVictim"
    /\ exitStatus = "running"
    /\ \E outcome \in GetEvictionSetOutcomes :
          IF outcome = "Done"
          THEN /\ evictionSetsVictim' = ReturnedRings
               /\ next' = Built(next, "victim", 1)
               /\ prev' = Built(prev, "victim", WAYS_PER_BANK - 1)
               /\ mainPc' = "StartProfiler"
               /\ UNCHANGED <<exitStatus, builderError>>
          ELSE /\ AbortProcess
               /\ builderError' = outcome
               /\ UNCHANGED <<evictionSetsVictim, next, prev>>
    /\ UNCHANGED <<builderLocals, probeVars, evictionSetsAttacker, profiler,
                   closestBank, numVictimThreads, bank, victimIndex,
                   attackers, victims, attackerTimesArray, arrayWriter,
                   victimBankBoundaries, clock, adjacent, fileConstant,
                   filePerBank, boundaries, timesRead, rerunVars>>

\* Mutant: the profiler is started as soon as the attacker's sets exist.
StartProfilerEarly ==
    /\ mainPc \in {"BuildVictim", "StartProfiler"}
    /\ exitStatus = "running"
    /\ profiler.pc = "none"
    /\ profiler' = [pc |-> "affinity", pinned |-> FALSE]
    /\ mainPc' = IF mainPc = "StartProfiler" THEN "JoinProfiler" ELSE mainPc
    /\ UNCHANGED <<builderVars, probeVars, exitStatus, builderError,
                   evictionSetsAttacker, evictionSetsVictim, closestBank,
                   numVictimThreads, bank, victimIndex, attackers, victims,
                   attackerTimesArray, arrayWriter, victimBankBoundaries,
                   clock, adjacent, fileConstant, filePerBank, boundaries,
                   timesRead, rerunVars>>

\* Lines 203-205: std::thread threadProfiler(GetAttackerClosestBank, ...).
StartProfiler ==
    /\ mainPc = "StartProfiler"
    /\ exitStatus = "running"
    /\ profiler' = [pc |-> "affinity", pinned |-> FALSE]
    /\ mainPc' = "JoinProfiler"
    /\ UNCHANGED <<builderVars, probeVars, exitStatus, builderError,
                   evictionSetsAttacker, evictionSetsVictim, closestBank,
                   numVictimThreads, bank, victimIndex, attackers, victims,
                   attackerTimesArray, arrayWriter, victimBankBoundaries,
                   clock, adjacent, fileConstant, filePerBank, boundaries,
                   timesRead, rerunVars>>

\* Lines 54-58: pthread_setaffinity_np; the host grants the request or
\* refuses it, and the result of the call is not looked at.
ProfilerAffinity ==
    /\ profiler.pc = "affinity"
    /\ exitStatus = "running"
    /\ \E granted \in BOOLEAN :
          profiler' = [pc |-> "chase", pinned |-> granted]
    /\ UNCHANGED <<builderVars, probeVars, mainPc, exitStatus, builderError,
                   evictionSetsAttacker, evictionSetsVictim, closestBank,
                   numVictimThreads, bank, victimIndex, attackers, victims,
                   attackerTimesArray, arrayWriter, victimBankBoundaries,
                   clock, adjacent, fileConstant, filePerBank, boundaries,
                   timesRead, rerunVars>>

\* Lines 61-87: the bank whose timed chase was the shortest, the first of
\* them on a tie.
RECURSIVE ClosestFrom(_, _, _, _)
ClosestFrom(times, b, shortestTime, closest) ==
    IF b >= LLC_BANKS THEN closest
    ELSE IF ULess(times[b], shortestTime)
    THEN ClosestFrom(times, b + 1, times[b], b)
    ELSE ClosestFrom(times, b + 1, shortestTime, closest)

\* Durations the timed chase of a ring may take.
ChaseTimes == {1, 2}

\* Lines 60-91: GetAttackerClosestBank measures every ring.
ProfilerChase ==
    /\ profiler.pc = "chase"
    /\ exitStatus = "running"
    /\ \E times \in [Banks -> ChaseTimes] :
          closestBank' = ClosestFrom(times, 0, -1, -1)
    /\ profiler' = [profiler EXCEPT !.pc = "done"]
    /\ UNCHANGED <<builderVars, probeVars, mainPc, exitStatus, builderError,
                   evictionSetsAttacker, evictionSetsVictim,
                   numVictimThreads, bank, victimIndex, attackers, victims,
                   attackerTimesArray, arrayWriter, victimBankBoundaries,
                   clock, adjacent, fileConstant, filePerBank, boundaries,
                   timesRead, rerunVars>>

\* Line 206: threadProfiler.join().
JoinProfiler ==
    /\ mainPc = "JoinProfiler"
    /\ exitStatus = "running"
    /\ profiler.pc = "done"
    /\ profiler' = [profiler EXCEPT !.pc = "joined"]
    /\ mainPc' = "StartAttacker"
    /\ UNCHANGED <<builderVars, probeVars, exitStatus, builderError,
                   evictionSetsAttacker, evictionSetsVictim, closestBank,
                   numVictimThreads, bank, victimIndex, attackers, victims,
                   attackerTimesArray, arrayWriter, victimBankBoundaries,
                   clock, adjacent, fileConstant, filePerBank, boundaries,
                   timesRead, rerunVars>>

\* Lines 212-227: an experiment begins; the attacker thread is created.
StartAttacker ==
    /\ mainPc = "StartAttacker"
    /\ exitStatus = "running"
    /\ attackers' = Store(attackers, numVictimThreads,
                          [pc |-> "affinity", pinned |-> FALSE, i |-> 0,
                           ring |-> evictionSetsAttacker[closestBank + 1]])
    /\ victimBankBoundaries' = <<>>
    /\ bank' = 0
    /\ victimIndex' = 0
    /\ mainPc' = IF numVictimThreads > 0 THEN "BankStart" ELSE "JoinAttacker"
    /\ UNCHANGED <<builderVars, probeVars, exitStatus, builderError,
                   evictionSetsAttacker, evictionSetsVictim, profiler,
                   closestBank, numVictimThreads, victims,
                   attackerTimesArray, arrayWriter, clock, adjacent,
                   fileConstant, filePerBank, boundaries, timesRead,
                   rerunVars>>

\* Lines 96-101: the attacker's pthread_setaffinity_np, result ignored.
AttackerAffinity(e) ==
    /\ attackers[e].pc = "affinity"
    /\ exitStatus = "running"
    /\ \E granted \in BOOLEAN :
          attackers' = [attackers EXCEPT ![e].pc = "warmup",
                                         ![e].pinned = granted]
    /\ UNCHANGED <<builderVars, probeVars, mainPc, exitStatus, builderError,
                   evictionSetsAttacker, evictionSetsVictim, profiler,
                   closestBank, numVictimThreads, bank, victimIndex, victims,
                   attackerTimesArray, arrayWriter, victimBankBoundaries,
                   clock, adjacent, fileConstant, filePerBank, boundaries,
                   timesRead, rerunVars>>

\* Lines 108-111: the warmup chase.
AttackerWarmup(e) ==
    /\ attackers[e].pc = "warmup"
    /\ exitStatus = "running"
    /\ attackers' = [attackers EXCEPT ![e].pc = "timed"]
    /\ UNCHANGED <<builderVars, probeVars, mainPc, exitStatus, builderError,
                   evictionSetsAttacker, evictionSetsVictim, profiler,
                   closestBank, numVictimThreads, bank, victimIndex, victims,
                   attackerTimesArray, arrayWriter, victimBankBoundaries,
                   clock, adjacent, fileConstant, filePerBank, boundaries,
                   timesRead, rerunVars>>

\* Lines 114-123: one timed epoch, times[i] = __rdtsc(); after the last one
\* the thread function returns (lines 125-127).
AttackerEpoch(e) ==
    /\ attackers[e].pc = "timed"
    /\ exitStatus = "running"
    /\ LET i_ == attackers[e].i IN
          /\ attackerTimesArray' = [attackerTimesArray EXCEPT ![i_ + 1] = clock]
          /\ arrayWriter' = [arrayWriter EXCEPT ![i_ + 1] = e]
          /\ attackers' =
                [attackers EXCEPT
                    ![e].i = i_ + 1,
                    ![e].pc = IF i_ + 1 = ATTACKER_TIMED_ITERATIONS
                              THEN "done" ELSE "timed"]
    /\ clock' \in Tick
    /\ UNCHANGED <<builderVars, probeVars, mainPc, exitStatus, builderError,
                   evictionSetsAttacker, evictionSetsVictim, profiler,
                   closestBank, numVictimThreads, bank, victimIndex, victims,
                   victimBankBoundaries, adjacent, fileConstant, filePerBank,
                   boundaries, timesRead, rerunVars>>

\* Lines 233-237: victimBankBoundaries[2 * bank] = __rdtsc().
BankStart ==
    /\ mainPc = "BankStart"
    /\ exitStatus = "running"
    /\ victimBankBoundaries' = Store(victimBankBoundaries, 2 * bank, clock)
    /\ clock' \in Tick
    /\ victimIndex' = 0
    /\ mainPc' = "SpawnVictims"
    /\ UNCHANGED <<builderVars, probeVars, exitStatus, builderError,
                   evictionSetsAttacker, evictionSetsVictim, profiler,
                   closestBank, numVictimThreads, bank, attackers, victims,
                   attackerTimesArray, arrayWriter, adjacent, fileConstant,
                   filePerBank, boundaries, timesRead, rerunVars>>

\* Lines 239-245: one victim thread of this bank is created.
SpawnVictim ==
    /\ mainPc = "SpawnVictims"
    /\ exitStatus = "running"
    /\ victims' = Store(victims, <<bank, victimIndex>>,
                        [pc |-> "created", ring |-> evictionSetsVictim[bank + 1]])
    /\ IF victimIndex + 1 < numVictimThreads
       THEN victimIndex' = victimIndex + 1 /\ mainPc' = mainPc
       ELSE victimIndex' = 0 /\ mainPc' = "JoinVictims"
    /\ UNCHANGED <<builderVars, probeVars, exitStatus, builderError,
                   evictionSetsAttacker, evictionSetsVictim, profiler,
                   closestBank, numVictimThreads, bank, attackers,
                   attackerTimesArray, arrayWriter, victimBankBoundaries,
                   clock, adjacent, fileConstant, filePerBank, boundaries,
                   timesRead, rerunVars>>

\* Lines 130-133: the victim starts its chase.
VictimStart(k) ==
    /\ victims[k].pc = "created"
    /\ exitStatus = "running"
    /\ victims' = [victims EXCEPT ![k].pc = "chasing"]
    /\ UNCHANGED <<builderVars, probeVars, mainPc, exitStatus, builderError,
                   evictionSetsAttacker, evictionSetsVictim, profiler,
                   closestBank, numVictimThreads, bank, victimIndex,
                   attackers, attackerTimesArray, arrayWriter,
                   victimBankBoundaries, clock, adjacent, fileConstant,
                   filePerBank, boundaries, timesRead, rerunVars>>

\* Mutant of VictimFinish: the node the chase started at is written, its
\* prev is made to name the node itself.
VictimFinishStoring(k) ==
    /\ victims[k].pc = "chasing"
    /\ exitStatus = "running"
    /\ victims' = [victims EXCEPT ![k].pc = "done"]
    /\ prev' = [prev EXCEPT ![HandleNode("victim", victims[k].ring)] =
                    HandleNode("victim", victims[k].ring)]
    /\ UNCHANGED <<builderLocals, next, probeVars, mainPc, exitStatus,
                   builderError, evictionSetsAttacker, evictionSetsVictim,
                   profiler, closestBank, numVictimThreads, bank, victimIndex,
                   attackers, attackerTimesArray, arrayWriter,
                   victimBankBoundaries, clock, adjacent, fileConstant,
                   filePerBank, boundaries, timesRead, rerunVars>>

\* Lines 135-143: the chase ends and the thread function returns.
VictimFinish(k) ==
    /\ victims[k].pc = "chasing"
    /\ exitStatus = "running"
    /\ victims' = [victims EXCEPT ![k].pc = "done"]
    /\ UNCHANGED <<builderVars, probeVars, mainPc, exitStatus, builderError,
                   evictionSetsAttacker, evictionSetsVictim, profiler,
                   closestBank, numVictimThreads, bank, victimIndex,
                   attackers, attackerTimesArray, arrayWriter,
                   victimBankBoundaries, clock, adjacent, fileConstant,
                   filePerBank, boundaries, timesRead, rerunVars>>

\* Mutant: the join loop stops one thread short.
JoinVictimButLast ==
    /\ mainPc = "JoinVictims"
    /\ exitStatus = "running"
    /\ IF victimIndex + 1 < numVictimThreads
       THEN /\ victims[<<bank, victimIndex>>].pc = "done"
            /\ victims' = [victims EXCEPT ![<<bank, victimIndex>>].pc = "joined"]
            /\ victimIndex' = victimIndex + 1
            /\ mainPc' = mainPc
       ELSE /\ victims' = victims
            /\ victimIndex' = 0
            /\ mainPc' = "BankEnd"
    /\ UNCHANGED <<builderVars, probeVars, exitStatus, builderError,
                   evictionSetsAttacker, evictionSetsVictim, profiler,
                   closestBank, numVictimThreads, bank, attackers,
                   attackerTimesArray, arrayWriter, victimBankBoundaries,
                   clock, adjacent, fileConstant, filePerBank, boundaries,
                   timesRead, rerunVars>>

\* Lines 247-249: threadVictim[i].join().
JoinVictim ==
    /\ mainPc = "JoinVictims"
    /\ exitStatus = "running"
    /\ victims[<<bank, victimIndex>>].pc = "done"
    /\ victims' = [victims EXCEPT ![<<bank, victimIndex>>].pc = "joined"]
    /\ IF victimIndex + 1 < numVictimThreads
       THEN victimIndex' = victimIndex + 1 /\ mainPc' = mainPc
       ELSE victimIndex' = 0 /\ mainPc' = "BankEnd"
    /\ UNCHANGED <<builderVars, probeVars, exitStatus, builderError,
                   evictionSetsAttacker, evictionSetsVictim, profiler,
                   closestBank, numVictimThreads, bank, attackers,
                   attackerTimesArray, arrayWriter, victimBankBoundaries,
                   clock, adjacent, fileConstant, filePerBank, boundaries,
                   timesRead, rerunVars>>

\* Lines 251-256: victimBankBoundaries[2 * bank + 1] = __rdtsc(), next bank.
BankEnd ==
    /\ mainPc = "BankEnd"
    /\ exitStatus = "running"
    /\ victimBankBoundaries' = Store(victimBankBoundaries, 2 * bank + 1, clock)
    /\ clock' \in Tick
    /\ bank' = bank + 1
    /\ mainPc' = IF bank + 1 < LLC_BANKS THEN "BankStart" ELSE "JoinAttacker"
    /\ UNCHANGED <<builderVars, probeVars, exitStatus, builderError,
                   evictionSetsAttacker, evictionSetsVictim, profiler,
                   closestBank, numVictimThreads, victimIndex, attackers,
                   victims, attackerTimesArray, arrayWriter, adjacent,
                   fileConstant, filePerBank, boundaries, timesRead,
                   rerunVars>>

\* Mutant: main goes on to the files without waiting for the attacker.
JoinAttackerNoWait ==
    /\ mainPc = "JoinAttacker"
    /\ exitStatus = "running"
    /\ attackers' = attackers
    /\ mainPc' = "OpenFiles"
    /\ UNCHANGED <<builderVars, probeVars, exitStatus, builderError,
                   evictionSetsAttacker, evictionSetsVictim, profiler,
                   closestBank, numVictimThreads, bank, victimIndex, victims,
                   attackerTimesArray, arrayWriter, victimBankBoundaries,
                   clock, adjacent, fileConstant, filePerBank, boundaries,
                   timesRead, rerunVars>>

\* Line 261: threadAttacker.join().
JoinAttacker ==
    /\ mainPc = "JoinAttacker"
    /\ exitStatus = "running"
    /\ attackers[numVictimThreads].pc = "done"
    /\ attackers' = [attackers EXCEPT ![numVictimThreads].pc = "joined"]
    /\ mainPc' = "OpenFiles"
    /\ UNCHANGED <<builderVars, probeVars, exitStatus, builderError,
                   evictionSetsAttacker, evictionSetsVictim, profiler,
                   closestBank, numVictimThreads, bank, victimIndex, victims,
                   attackerTimesArray, arrayWriter, victimBankBoundaries,
                   clock, adjacent, fileConstant, filePerBank, boundaries,
                   timesRead, rerunVars>>

(***************************************************************************)
(* The output files.  A line is its number; header tells a count line from *)
(* a delta line (it is not in the file).                                   *)
(***************************************************************************)
TimedEpochs == 0..(ATTACKER_TIMED_ITERATIONS - 1)

\* The memory next to attackerTimesArray that a read outside of the array
\* reaches: the cell before it and PastEndCells cells after it.  A read
\* further out faults.
AdjacentCells ==
    {-1} \cup (ATTACKER_TIMED_ITERATIONS ..
                  (ATTACKER_TIMED_ITERATIONS + PastEndCells - 1))

Readable(idx) == idx \in TimedEpochs \cup AdjacentCells

\* timesRead holds <<reader, index>> for every read of attackerTimesArray
\* made by main (lines 277-327) or by SplitResultsIntoBanks.
ReadBy(reader, indices) == {reader} \X indices

IndicesRead(reader) == {r[2] : r \in {x \in timesRead : x[1] = reader}}

AllIndicesRead == {r[2] : r \in timesRead}

\* What such a cell may hold.
GarbageValues == {0, 2 ^ 30}

\* attackerTimesArray[idx]
ReadTime(mem, idx) ==
    IF idx \in TimedEpochs THEN mem.times[idx + 1] ELSE mem.adjacent[idx]

HeaderLine(n) == [header |-> TRUE, value |-> n]

DeltaLine(n) == [header |-> FALSE, value |-> n]

\* Lines 278-283 (and 291-298): T - 1, then attackerTimesArray[i] -
\* attackerTimesArray[i - 1] for i = 1 .. T - 1.
AllDeltas(times) ==
    <<HeaderLine(ATTACKER_TIMED_ITERATIONS - 1)>>
        \o [j \in 1..(ATTACKER_TIMED_ITERATIONS - 1) |->
               DeltaLine(times[j + 1] - times[j])]

\* while (attackerTimesArray[access] < bound) ++access;
RECURSIVE ScanTo(_, _, _)
ScanTo(mem, access, bound) ==
    IF ~Readable(access) THEN [access |-> access, fault |-> TRUE]
    ELSE IF ULess(ReadTime(mem, access), bound)
    THEN ScanTo(mem, access + 1, bound)
    ELSE [access |-> access, fault |-> FALSE]

\* Lines 153-175 from bank b on; acc is the vector boundaries so far.
RECURSIVE SplitFrom(_, _, _, _, _)
SplitFrom(mem, vbb, b, access, acc) ==
    IF b >= LLC_BANKS
    THEN [boundaries |-> acc, access |-> access, fault |-> FALSE]
    ELSE LET s == ScanTo(mem, access, vbb[2 * b])
             e == ScanTo(mem, s.access, vbb[2 * b + 1])
         IN IF s.fault
            THEN [boundaries |-> acc, access |-> s.access, fault |-> TRUE]
            ELSE IF e.fault
            THEN [boundaries |-> Append(acc, s.access), access |-> e.access,
                  fault |-> TRUE]
            ELSE SplitFrom(mem, vbb, b + 1, e.access,
                           acc \o <<s.access, e.access - 1>>)

\* boundaries (1-based here), the last index read and whether a read faulted.
SplitResultsIntoBanks(mem, vbb) == SplitFrom(mem, vbb, 0, 0, <<>>)

\* Lines 322-326: for (i = first; i <= last; ++i) with uint64_t i.
RECURSIVE EmitFrom(_, _, _, _, _)
EmitFrom(mem, i_, last, lines, reads) ==
    IF ~ULessEq(i_, last)
    THEN [lines |-> lines, reads |-> reads, fault |-> FALSE]
    ELSE IF ~Readable(i_) \/ ~Readable(i_ - 1)
    THEN [lines |-> lines, reads |-> reads \cup {i_}, fault |-> TRUE]
    ELSE EmitFrom(mem, i_ + 1, last,
                  Append(lines,
                         DeltaLine(ReadTime(mem, i_) - ReadTime(mem, i_ - 1))),
                  reads \cup {i_, i_ - 1})

\* Lines 314-327 from bank b on.
RECURSIVE PerBankFrom(_, _, _, _, _)
PerBankFrom(mem, bnd, b, lines, reads) ==
    IF b >= LLC_BANKS
    THEN [lines |-> lines, reads |-> reads, fault |-> FALSE]
    ELSE LET accesses == bnd[2 * b + 2] - bnd[2 * b + 1] + 1
             r == EmitFrom(mem, bnd[2 * b + 1], bnd[2 * b + 2],
                           Append(lines, HeaderLine(accesses)), reads)
         IN IF r.fault THEN r
            ELSE PerBankFrom(mem, bnd, b + 1, r.lines, r.reads)

\* Lines 265-271: both files are opened; assert(is_open()).
OpenFiles ==
    /\ mainPc = "OpenFiles"
    /\ exitStatus = "running"
    /\ \E opened \in BOOLEAN :
          IF opened
          THEN mainPc' = "WriteConstant" /\ exitStatus' = exitStatus
          ELSE AbortProcess
    /\ fileConstant' = <<>>
    /\ filePerBank' = <<>>
    /\ UNCHANGED <<builderVars, probeVars, builderError,
                   evictionSetsAttacker, evictionSetsVictim, profiler,
                   closestBank, numVictimThreads, bank, victimIndex,
                   attackers, victims, attackerTimesArray, arrayWriter,
                   victimBankBoundaries, clock, adjacent, boundaries,
                   timesRead, rerunVars>>

\* Lines 277-284.
WriteConstant ==
    /\ mainPc = "WriteConstant"
    /\ exitStatus = "running"
    /\ fileConstant' = AllDeltas(attackerTimesArray)
    /\ timesRead' = timesRead \cup ReadBy("main", TimedEpochs)
    /\ mainPc' = "WritePerBank"
    /\ UNCHANGED <<builderVars, probeVars, exitStatus, builderError,
                   evictionSetsAttacker, evictionSetsVictim, profiler,
                   closestBank, numVictimThreads, bank, victimIndex,
                   attackers, victims, attackerTimesArray, arrayWriter,
                   victimBankBoundaries, clock, adjacent, filePerBank,
                   boundaries, rerunVars>>

\* Lines 289-307: without victims every delta goes to the per-bank file.
WritePerBankAll ==
    /\ mainPc = "WritePerBank"
    /\ exitStatus = "running"
    /\ numVictimThreads = 0
    /\ filePerBank' = AllDeltas(attackerTimesArray)
    /\ timesRead' = timesRead \cup ReadBy("main", TimedEpochs)
    /\ mainPc' = "NextExperiment"
    /\ UNCHANGED <<builderVars, probeVars, exitStatus, builderError,
                   evictionSetsAttacker, evictionSetsVictim, profiler,
                   closestBank, numVictimThreads, bank, victimIndex,
                   attackers, victims, attackerTimesArray, arrayWriter,
                   victimBankBoundaries, clock, adjacent, fileConstant,
                   boundaries, rerunVars>>

\* Lines 309-333: the epochs are split by bank window and written per bank.
\* Reads outside of the array see whatever the adjacent memory holds.
WritePerBankSplit ==
    /\ mainPc = "WritePerBank"
    /\ exitStatus = "running"
    /\ numVictimThreads > 0
    /\ \E adj \in [AdjacentCells -> GarbageValues] :
          LET mem == [times |-> attackerTimesArray, adjacent |-> adj]
              split == SplitResultsIntoBanks(mem, victimBankBoundaries)
              outp == PerBankFrom(mem, split.boundaries, 0, <<>>, {})
              reads == (0..split.access)
                          \cup (IF split.fault THEN {} ELSE outp.reads)
          IN /\ boundaries' = split.boundaries
             /\ timesRead' =
                   timesRead
                      \cup ReadBy("SplitResultsIntoBanks", 0..split.access)
                      \cup (IF split.fault THEN {}
                            ELSE ReadBy("main", outp.reads))
             /\ adjacent' = [c \in AdjacentCells \cap reads |-> adj[c]]
             /\ filePerBank' = IF split.fault THEN filePerBank ELSE outp.lines
             /\ IF split.fault \/ outp.fault
                THEN Fault
                ELSE mainPc' = "NextExperiment" /\ exitStatus' = exitStatus
    /\ UNCHANGED <<builderVars, probeVars, builderError,
                   evictionSetsAttacker, evictionSetsVictim, profiler,
                   closestBank, numVictimThreads, bank, victimIndex,
                   attackers, victims, attackerTimesArray, arrayWriter,
                   victimBankBoundaries, clock, fileConstant, rerunVars>>

\* Lines 212-213 and 329-345: the next experiment, or the end of main.
NextExperiment ==
    /\ mainPc = "NextExperiment"
    /\ exitStatus = "running"
    /\ numVictimThreads' = numVictimThreads + 1
    /\ IF numVictimThreads + 1 <= MAX_NUM_VICTIM_THREADS
       THEN mainPc' = "StartAttacker" /\ exitStatus' = exitStatus
       ELSE mainPc' = "Exited" /\ exitStatus' = "exit0"
    /\ victims' = <<>>
    /\ victimBankBoundaries' = <<>>
    /\ fileConstant' = <<>>
    /\ filePerBank' = <<>>
    /\ boundaries' = <<>>
    /\ adjacent' = <<>>
    /\ timesRead' = {}
    /\ UNCHANGED <<builderVars, probeVars, builderError,
                   evictionSetsAttacker, evictionSetsVictim, profiler,
                   closestBank, bank, victimIndex, attackers,
                   attackerTimesArray, arrayWriter, clock, rerunVars>>

NextHarness ==
    \/ BuildAttackerSets
    \/ BuildVictimSets
    \/ StartProfiler
    \/ ProfilerAffinity
    \/ ProfilerChase
    \/ JoinProfiler
    \/ StartAttacker
    \/ \E e \in DOMAIN attackers : AttackerAffinity(e)
    \/ \E e \in DOMAIN attackers : AttackerWarmup(e)
    \/ \E e \in DOMAIN attackers : AttackerEpoch(e)
    \/ BankStart
    \/ SpawnVictim
    \/ \E k \in DOMAIN victims : VictimStart(k)
    \/ \E k \in DOMAIN victims : VictimFinish(k)
    \/ JoinVictim
    \/ BankEnd
    \/ JoinAttacker
    \/ OpenFiles
    \/ WriteConstant
    \/ WritePerBankAll
    \/ WritePerBankSplit
    \/ NextExperiment

\* main() calls GetEvictionSet() as one step, so that the builder's own
\* variables stay as they are at the start.
BuilderUnused ==
    /\ InitBuilder
    /\ platform = "ideal"
    /\ setIndex = CACHE_SET_ATTACKER
    /\ InitProbeIdle

SpecHarnessInit == BuilderUnused /\ InitHarness /\ InitRerun

SpecHarness == SpecHarnessInit /\ [][NextHarness]_vars

(***************************************************************************)
(* The output of one experiment on its own, over every monotone stream of  *)
(* attacker timestamps and every ordered sequence of bank windows.         *)
(***************************************************************************)
Monotone(f, lo, hi) == \A j \in lo..(hi - 1) : f[j] <= f[j + 1]

\* Both calls of GetEvictionSet have returned their rings.
BuilderReturned ==
    /\ InitBuilderLocals
    /\ platform = "ideal"
    /\ setIndex = CACHE_SET_ATTACKER
    /\ InitProbeIdle
    /\ next = Built(Built(<<>>, "attacker", 1), "victim", 1)
    /\ prev = Built(Built(<<>>, "attacker", WAYS_PER_BANK - 1), "victim",
                    WAYS_PER_BANK - 1)

SpecSplitInit ==
    /\ BuilderReturned
    /\ mainPc = "OpenFiles"
    /\ exitStatus = "running"
    /\ builderError = "none"
    /\ evictionSetsAttacker = ReturnedRings
    /\ evictionSetsVictim = ReturnedRings
    /\ profiler = [pc |-> "joined", pinned |-> TRUE]
    /\ closestBank = 0
    /\ numVictimThreads \in {0, 1}
    /\ bank = IF numVictimThreads = 0 THEN 0 ELSE LLC_BANKS
    /\ victimIndex = 0
    /\ attackers = [e \in {numVictimThreads} |->
                       [pc |-> "joined", pinned |-> TRUE,
                        i |-> ATTACKER_TIMED_ITERATIONS, ring |-> 0]]
    /\ victims = <<>>
    /\ attackerTimesArray \in
          {t \in [1..ATTACKER_TIMED_ITERATIONS -> 0..MaxTime] :
              Monotone(t, 1, ATTACKER_TIMED_ITERATIONS)}
    /\ arrayWriter = [j \in 1..ATTACKER_TIMED_ITERATIONS |-> numVictimThreads]
    /\ IF numVictimThreads = 0
       THEN victimBankBoundaries = <<>>
       ELSE victimBankBoundaries \in
               {w \in [0..(2 * LLC_BANKS - 1) -> 0..MaxTime] :
                   Monotone(w, 0, 2 * LLC_BANKS - 1)}
    /\ clock = MaxTime
    /\ adjacent = <<>>
    /\ fileConstant = <<>>
    /\ filePerBank = <<>>
    /\ boundaries = <<>>
    /\ timesRead = {}
    /\ InitRerun

NextSplit ==
    \/ OpenFiles
    \/ WriteConstant
    \/ WritePerBankAll
    \/ WritePerBankSplit

SpecSplit == SpecSplitInit /\ [][NextSplit]_vars

(***************************************************************************)
(* Properties of main() and its threads.                                   *)
(***************************************************************************)
ThreadsCreated ==
    {"profiler" : x \in IF profiler.pc = "none" THEN {} ELSE {1}}
        \cup {"attacker" : e \in DOMAIN attackers}
        \cup {"victim" : k \in DOMAIN victims}

\* C12: once a sanity check of a builder has failed, the run is over and is
\* not a success: that builder has returned no rings, no profiler, attacker
\* or victim thread exists, no output file has been written, and the
\* process has ended otherwise than with exit code 0.
C12_FailedOracleEndsRun ==
    builderError # "none" =>
        /\ builderError \in GetEvictionSetAsserts
        /\ mainPc = "Exited"
        /\ exitStatus \notin {"running", "exit0"}
        /\ evictionSetsVictim = <<>>
        /\ ThreadsCreated = {}
        /\ fileConstant = <<>>
        /\ filePerBank = <<>>

C12_Witness ==
    /\ builderError = "SanityCheckEvictionSets"
    /\ evictionSetsAttacker = ReturnedRings
    /\ exitStatus = "SIGABRT"

\* C13: the attacker's sets are built first and the victim's sets second,
\* both by main itself, and while a builder has not yet returned there is
\* no profiler, attacker or victim thread: every thread is created after
\* both calls have returned.
C13_BuildersRunAlone ==
    /\ mainPc = "BuildAttacker" =>
          evictionSetsAttacker = <<>> /\ evictionSetsVictim = <<>>
    /\ mainPc = "BuildVictim" =>
          evictionSetsAttacker = ReturnedRings /\ evictionSetsVictim = <<>>
    /\ mainPc \in {"BuildAttacker", "BuildVictim"} => ThreadsCreated = {}
    /\ ThreadsCreated # {} =>
          /\ evictionSetsAttacker = ReturnedRings
          /\ evictionSetsVictim = ReturnedRings

C13_Witness ==
    /\ ThreadsCreated = {"profiler", "attacker", "victim"}
    /\ evictionSetsVictim = ReturnedRings
    /\ numVictimThreads = MAX_NUM_VICTIM_THREADS

\* The attacker threads that have been created and not yet joined.
AliveAttackers == {e \in DOMAIN attackers : attackers[e].pc # "joined"}

\* Where main reads attackerTimesArray (lines 277-327).
ReadingPcs == {"OpenFiles", "WriteConstant", "WritePerBank", "NextExperiment"}

\* C14: at most one attacker thread is alive, the one of the current
\* experiment; a cell of the timestamp array is written only by that
\* thread in its timed loop; and main reads the array only when it has
\* joined that thread, every cell then holding what that thread wrote.
C14_ArrayWrittenThenRead ==
    /\ [](/\ Cardinality(AliveAttackers) <= 1
          /\ AliveAttackers \subseteq {numVictimThreads}
          /\ (mainPc \in ReadingPcs \/ timesRead # {}) =>
                /\ AliveAttackers = {}
                /\ numVictimThreads \in DOMAIN attackers
                /\ \A j \in DOMAIN arrayWriter :
                      arrayWriter[j] = numVictimThreads)
    /\ [][/\ \A j \in DOMAIN arrayWriter :
                (\/ arrayWriter'[j] # arrayWriter[j]
                 \/ attackerTimesArray'[j] # attackerTimesArray[j]) =>
                   /\ arrayWriter'[j] = numVictimThreads
                   /\ numVictimThreads \in AliveAttackers
                   /\ attackers[numVictimThreads].pc = "timed"
                   /\ timesRead = {}
          /\ timesRead' # timesRead /\ timesRead' # {} =>
                attackerTimesArray' = attackerTimesArray
         ]_vars

C14_Witness ==
    /\ mainPc = "NextExperiment"
    /\ numVictimThreads = 1
    /\ TimedEpochs \subseteq AllIndicesRead
    /\ DOMAIN attackers = {0, 1}
    /\ \A j \in DOMAIN arrayWriter : arrayWriter[j] = 1

\* The victim threads that have been created and not yet joined.
AliveVictims == {k \in DOMAIN victims : victims[k].pc # "joined"}

\* victimBankBoundaries[2 * b] and [2 * b + 1], once written.
StartCaptured(b) == (2 * b) \in DOMAIN victimBankBoundaries

EndCaptured(b) == (2 * b + 1) \in DOMAIN victimBankBoundaries

\* C15: a victim of bank b exists only after start_b was captured; end_b
\* is captured only when all v victims of bank b have been joined; the
\* victims of a later bank exist only when those of the earlier banks are
\* joined, so that at most v victims are alive, all of them of the current
\* bank and on its ring; and start_b <= end_b <= start_(b+1).
C15_VictimWindows ==
    /\ Cardinality(AliveVictims) <= numVictimThreads
    /\ \A k \in DOMAIN victims :
          /\ StartCaptured(k[1])
          /\ k[2] \in 0..(numVictimThreads - 1)
          /\ victims[k].ring = evictionSetsVictim[k[1] + 1]
          /\ \A k2 \in DOMAIN victims :
                k2[1] < k[1] => victims[k2].pc = "joined"
    /\ \A k \in AliveVictims : k[1] = bank /\ ~EndCaptured(bank)
    /\ \A b \in Banks :
          /\ EndCaptured(b) =>
                /\ StartCaptured(b)
                /\ victimBankBoundaries[2 * b] <= victimBankBoundaries[2 * b + 1]
                /\ \A j \in 0..(numVictimThreads - 1) :
                      /\ <<b, j>> \in DOMAIN victims
                      /\ victims[<<b, j>>].pc = "joined"
          /\ (b > 0 /\ StartCaptured(b)) =>
                /\ EndCaptured(b - 1)
                /\ victimBankBoundaries[2 * b - 1] <= victimBankBoundaries[2 * b]

C15_Witness ==
    /\ numVictimThreads = MAX_NUM_VICTIM_THREADS
    /\ bank = LLC_BANKS - 1
    /\ Cardinality(AliveVictims) = MAX_NUM_VICTIM_THREADS
    /\ \A k \in AliveVictims : victims[k].pc = "chasing"
    /\ EndCaptured(LLC_BANKS - 2)

(***************************************************************************)
(* Properties of the output files.                                         *)
(***************************************************************************)
\* The per-bank stage of an experiment with victims has run, to its end or
\* to a fault.
PerBankStageOver ==
    /\ numVictimThreads > 0
    /\ mainPc = "NextExperiment" \/ exitStatus = "SIGSEGV"

\* The epochs whose timestamp lies in [start_b, end_b).
EpochsInWindow(b) ==
    {e \in TimedEpochs :
        /\ victimBankBoundaries[2 * b] <= attackerTimesArray[e + 1]
        /\ attackerTimesArray[e + 1] < victimBankBoundaries[2 * b + 1]}

\* The count of those epochs and their deltas in increasing index.  Epoch 0
\* has no predecessor: first stands for its delta.
WindowLines(b, first) ==
    LET epochs == SortedSeq(EpochsInWindow(b))
    IN <<HeaderLine(Len(epochs))>>
           \o [j \in 1..Len(epochs) |->
                  DeltaLine(IF epochs[j] = 0 THEN first
                            ELSE attackerTimesArray[epochs[j] + 1]
                                    - attackerTimesArray[epochs[j]])]

RECURSIVE WindowLinesFrom(_, _)
WindowLinesFrom(b, first) ==
    IF b >= LLC_BANKS THEN <<>>
    ELSE WindowLines(b, first) \o WindowLinesFrom(b + 1, first)

\* What a delta of epoch 0 may be.
FirstDeltas == {attackerTimesArray[1] - g : g \in GarbageValues}

\* C16: for v > 0 the per-bank file holds, bank after bank, the number of
\* attacker epochs with start_b <= t[i] < end_b and then the deltas
\* t[i] - t[i-1] of exactly those epochs in increasing i.
C16_PerBankOutput ==
    PerBankStageOver =>
        \E first \in FirstDeltas : filePerBank = WindowLinesFrom(0, first)

\* C17: SplitResultsIntoBanks reads attackerTimesArray at no index of T or
\* more: its scans stop at the last epoch the attacker recorded.
C17_NoReadPastEnd ==
    \A idx \in IndicesRead("SplitResultsIntoBanks") :
        idx <= ATTACKER_TIMED_ITERATIONS - 1

\* The sum of the count lines of a file.
RECURSIVE SumOfHeaders(_)
SumOfHeaders(lines) ==
    IF lines = <<>> THEN 0
    ELSE (IF Head(lines).header THEN Head(lines).value ELSE 0)
            + SumOfHeaders(Tail(lines))

\* C18: for v > 0 the per-bank counts written to the per-bank file add up
\* to at most T - 1, whatever the timestamps and the bank boundaries are.
C18_CountsAtMostDeltas ==
    PerBankStageOver =>
        SumOfHeaders(filePerBank) <= ATTACKER_TIMED_ITERATIONS - 1

\* The lines of a file from position j on agree with their count lines:
\* left is the number of delta lines the last count line still announces.
RECURSIVE CountsMatchFrom(_, _, _)
CountsMatchFrom(lines, j, left) ==
    IF j > Len(lines) THEN left = 0
    ELSE IF lines[j].header
    THEN left = 0 /\ CountsMatchFrom(lines, j + 1, lines[j].value)
    ELSE left > 0 /\ CountsMatchFrom(lines, j + 1, left - 1)

CountsMatch(lines) == CountsMatchFrom(lines, 1, 0)

\* The output of the experiment is over: main has left the output stage or
\* the process has died in it.
OutputOver == mainPc = "NextExperiment" \/ exitStatus = "SIGSEGV"

\* C19: in the files of an experiment every count line is followed by
\* exactly as many delta lines as it announces: the constant file, and the
\* per-bank file for v = 0, is T - 1 and T - 1 deltas, and in the per-bank
\* file for v > 0 every bank has its count and that many deltas, none for
\* a window without an epoch.
C19_HeadersMatchLines ==
    OutputOver =>
        /\ CountsMatch(fileConstant)
        /\ Len(fileConstant) = ATTACKER_TIMED_ITERATIONS
        /\ fileConstant[1] = HeaderLine(ATTACKER_TIMED_ITERATIONS - 1)
        /\ numVictimThreads = 0 => filePerBank = fileConstant
        /\ CountsMatch(filePerBank)

\* The threads whose pthread_setaffinity_np was refused.
UnpinnedProfiler ==
    profiler.pc \in {"chase", "done", "joined"} /\ ~profiler.pinned

UnpinnedAttackers ==
    {e \in DOMAIN attackers :
        attackers[e].pc # "affinity" /\ ~attackers[e].pinned}

\* C20: when the affinity request of the profiler or of the attacker is
\* refused, the run ends as a failure, and the unpinned thread times no
\* chase and records no timestamp.
C20_AffinityRefusalIsFatal ==
    /\ UnpinnedProfiler =>
          /\ exitStatus \notin {"running", "exit0"}
          /\ profiler.pc = "chase"
          /\ closestBank = NULL
    /\ \A e \in UnpinnedAttackers :
          /\ exitStatus \notin {"running", "exit0"}
          /\ attackers[e].pc = "warmup"
          /\ attackers[e].i = 0
          /\ \A j \in DOMAIN arrayWriter : arrayWriter[j] # e

(***************************************************************************)
(* GetEvictionSet called a second time on the same region.                 *)
(***************************************************************************)
\* The node sets of the rings a finished call returned.
ReturnedNodeSets == {OutputNodes(j) : j \in 1..Len(evictionSetHeads)}

\* A region that holds just enough candidates.
TwiceBases == {4194304}

TwiceSizes == {2 * CONFLICT_SET_SIZE * SETS_PER_BANK}

\* Lines 318-343 of a second call: the same seed (srand(0), line 319), the
\* region at the same addresses with the same mapping of lines to banks, so
\* FindCandidates returns the same candidates; every local of the call
\* starts afresh and the nodes are rewritten by the shuffle.
Rerun ==
    /\ pc = "Done"
    /\ run = 1
    /\ run' = 2
    /\ firstRings' = ReturnedNodeSets
    /\ pc' = "Enumerated"
    /\ next' = <<>>
    /\ prev' = <<>>
    /\ candidateSetHead' = NULL
    /\ conflictSetHead' = NULL
    /\ candidate' = NULL
    /\ count' = 0
    /\ i' = 0
    /\ evictionSetHeads' = <<>>
    /\ evictionSet' = {}
    /\ testNode' = NULL
    /\ missToDRAM' = FALSE
    /\ probed' = FALSE
    /\ conflictNodes' = {}
    /\ witnesses' = <<>>
    /\ UNCHANGED <<error, platform, setIndex, array, candidates, sliceOf,
                   seed, probeVars, harnessVars>>

NextTwice ==
    \/ Allocate(TwiceBases, TwiceSizes)
    \/ EnumerateCandidates
    \/ Randomize
    \/ SanityCheckCandidates
    \/ SeedConflictSet
    \/ Warmup
    \/ Grow
    \/ GrowDone
    \/ Search
    \/ Confirm
    \/ ScanSkip
    \/ ScanUnsplice
    \/ ScanProbe
    \/ ScanResplice
    \/ Splice
    \/ Retire
    \/ Finish
    \/ Rerun

SpecTwiceInit == Init /\ setIndex = CACHE_SET_ATTACKER

SpecTwice == SpecTwiceInit /\ [][NextTwice]_vars

LeftoverRing == RingNodes(next, candidateSetHead)

GrowingRing == RingNodes(next, conflictSetHead)

\* What holds at the head of every iteration of the loop of lines 422-454.
GrowthLoopState ==
    pc = "ConflictGrowing" =>
        /\ count = Cardinality(GrowingRing)
        /\ WellFormedRing(next, prev, conflictSetHead, count)
        /\ WellFormedRing(next, prev, candidateSetHead,
                          Cardinality(candidates) - count)
        /\ GrowingRing \cap LeftoverRing = {}
        /\ Cardinality(GrowingRing) + Cardinality(LeftoverRing)
               = Cardinality(candidates)
        /\ candidate \in LeftoverRing
        /\ candidateSetHead \in RingNodes(next, candidate)
        /\ count <= CONFLICT_SET_SIZE

\* One iteration: missToDRAM' is what its Probe returned.
GrowthIteration ==
    (pc = "ConflictGrowing" /\ pc' = "ConflictGrowing") =>
        /\ count < CONFLICT_SET_SIZE
        /\ candidate' = next[candidate]
        /\ IF missToDRAM'
           THEN /\ RingNodes(next', conflictSetHead') = GrowingRing
                /\ RingNodes(next', candidateSetHead') = LeftoverRing
                /\ count' = count
           ELSE /\ RingNodes(next', conflictSetHead')
                       = GrowingRing \cup {candidate}
                /\ RingNodes(next', candidateSetHead')
                       = LeftoverRing \ {candidate}
                /\ count' = count + 1

\* The loop is left with a full conflict ring, and only then.
GrowthExit ==
    (pc = "ConflictGrowing" /\ pc' # "ConflictGrowing") =>
        /\ Cardinality(GrowingRing) = CONFLICT_SET_SIZE
        /\ Cardinality(LeftoverRing)
               = Cardinality(candidates) - CONFLICT_SET_SIZE

\* C22: each iteration of the conflict-growth loop moves the cursor
\* candidate from the leftover ring to the conflict ring iff Probe returned
\* false, otherwise the candidate stays and the cursor advances; in every
\* iteration the counter is the size of the conflict ring, the two rings
\* together hold the k candidates, the cursor and the leftover handle are
\* nodes of the leftover ring, and the loop is left exactly when the
\* conflict ring holds slices*ways nodes and the leftover ring k - slices*ways.
C22_GrowthLoop ==
    /\ []GrowthLoopState
    /\ [][GrowthIteration /\ GrowthExit]_vars

\* The loop is over after an iteration that moved the handle of the
\* leftover ring.
C22_Witness ==
    /\ pc = "ConflictGrowing"
    /\ count = CONFLICT_SET_SIZE
    /\ ~missToDRAM
    /\ candidate = candidateSetHead
    /\ Cardinality(LeftoverRing) = Cardinality(candidates) - CONFLICT_SET_SIZE

(***************************************************************************)
(* The search for a witness (lines 498-552).                               *)
(***************************************************************************)
\* The leftover ring once growth is over: the ring of the cursor.
CursorRing == RingNodes(next, candidate)

\* The scan starts only from the last of CONFIRM_PROBES answers "evicted".
ScanOnlyAfterConfirmation ==
    (pc \notin {"Scan", "ScanProbe", "ScanResplice"} /\ pc' = "Scan") =>
        /\ pc = "Confirm"
        /\ i = CONFIRM_PROBES - 1
        /\ i' = CONFIRM_PROBES
        /\ missToDRAM'
        /\ candidate' = candidate
        /\ testNode' = conflictSetHead

\* The confirmation probes follow one answer "evicted" of the search, count
\* from zero, and between them neither the candidate nor a ring changes.
ConfirmationCounts ==
    /\ (pc # "Confirm" /\ pc' = "Confirm") =>
           /\ pc = "Search"
           /\ missToDRAM'
           /\ i' = 0
           /\ candidate' = candidate
           /\ next' = next
    /\ (pc = "Confirm" /\ pc' \in {"Confirm", "Scan"}) =>
           /\ missToDRAM'
           /\ i' = i + 1
           /\ candidate' = candidate
           /\ next' = next
           /\ conflictSetHead' = conflictSetHead

\* An answer "not evicted" in the search or the confirmation takes the
\* candidate out of the leftover ring and hands the search its successor.
FalseProbeDrops ==
    (pc \in {"Search", "Confirm"} /\ ~missToDRAM' /\ pc' # "Aborted") =>
        /\ pc' = "Search"
        /\ candidate' = next[candidate]
        /\ candidate' # candidate
        /\ RingNodes(next', candidate') = CursorRing \ {candidate}

\* No node comes back to the leftover ring during partitioning.
LeftoverOnlyShrinks ==
    (pc \in PartitioningPcs /\ pc' \in PartitioningPcs) =>
        RingNodes(next', candidate') \subseteq CursorRing

\* C23: a leftover candidate becomes the witness of an isolation scan only
\* after one Probe against the conflict ring answered true and
\* CONFIRM_PROBES further Probes in a row against the same ring answered
\* true; the first false answer removes the candidate from the leftover
\* ring, which it never re-enters, and the search goes on with its
\* successor.
C23_WitnessConfirmed ==
    [][/\ ScanOnlyAfterConfirmation
       /\ ConfirmationCounts
       /\ FalseProbeDrops
       /\ LeftoverOnlyShrinks]_vars

\* A scan has started under a confirmed witness after an earlier candidate
\* had been dropped.
C23_Witness ==
    /\ pc = "Scan"
    /\ i = CONFIRM_PROBES
    /\ evictionSet = {}
    /\ evictionSetHeads = <<>>
    /\ Cardinality(CursorRing) < Cardinality(candidates) - CONFLICT_SET_SIZE

(***************************************************************************)
(* The isolation scan (lines 567-604).                                     *)
(***************************************************************************)
ScanPcs == {"Scan", "ScanProbe", "ScanResplice"}

TestNodeOut == pc \in {"ScanProbe", "ScanResplice"}

\* The links as they are with the test node back between the two
\* neighbours it names.
LinksWithTestNode ==
    IF TestNodeOut
    THEN [next |-> [next EXCEPT ![prev[testNode]] = testNode],
          prev |-> [prev EXCEPT ![next[testNode]] = testNode]]
    ELSE Mem

\* During a test the ring entered at the test node's successor is the
\* conflict ring without the test node, and nothing else is out of it.
OneNodeOut ==
    TestNodeOut =>
        LET whole == RingNodes(LinksWithTestNode.next, conflictSetHead)
            probedRing == RingNodes(next, next[testNode])
        IN /\ testNode \in whole
           /\ testNode \notin probedRing
           /\ probedRing = whole \ {testNode}
           /\ WellFormedRing(next, prev, next[testNode],
                             Cardinality(whole) - 1)
           /\ testNode \notin evictionSet

\* One test: unsplice, one Probe, resplice; the links with the test node in
\* place are those before the test, and only the marked set, by the test
\* node at most, and the position of the scan change.
ScanStep ==
    (pc \in ScanPcs /\ pc' \in ScanPcs) =>
        /\ LinksWithTestNode' = LinksWithTestNode
        /\ conflictSetHead' = conflictSetHead
        /\ candidate' = candidate
        /\ evictionSetHeads' = evictionSetHeads
        /\ evictionSet \subseteq evictionSet'
        /\ evictionSet' \ evictionSet \subseteq {testNode}
        /\ pc = "Scan" => (pc' = "ScanProbe" \/ (pc' = "Scan" /\ next' = next))
        /\ pc = "ScanProbe" => (pc' = "ScanResplice" /\ next' = next
                                   /\ prev' = prev /\ testNode' = testNode)
        /\ pc = "ScanResplice" =>
              /\ pc' = "Scan"
              /\ Mem' = LinksWithTestNode
              /\ testNode' = next[testNode]
              /\ (testNode \in evictionSet') = ~missToDRAM

\* The test that completes the marked set puts its node back as well.
ScanLastStep ==
    (pc = "ScanResplice" /\ pc' = "Splice") =>
        /\ Mem' = LinksWithTestNode
        /\ evictionSet' = evictionSet \cup {testNode}
        /\ ~missToDRAM

\* C24: in the isolation scan each tested node is unspliced from the
\* conflict ring, one Probe is run on the ring entered at its former
\* successor, and the node is spliced back at its former position whatever
\* the Probe returned; after every test the conflict ring has the same nodes
\* in the same cyclic order as before, only the marked set may have changed,
\* and at most one node is outside the ring during a Probe.
C24_ScanRestoresRing ==
    /\ []OneNodeOut
    /\ [][ScanStep /\ ScanLastStep]_vars

\* A test whose Probe answered "evicted" is over: its node is back, it is
\* not marked, and an earlier node is.
C24_Witness ==
    /\ pc = "Scan"
    /\ missToDRAM
    /\ evictionSet # {}
    /\ prev[testNode] \notin evictionSet
    /\ WellFormedRing(next, prev, conflictSetHead, CONFLICT_SET_SIZE)

(***************************************************************************)
(* The splice of the marked nodes (lines 606-636).                         *)
(***************************************************************************)
\* One splice: the ring before it, the ring that remains, the ring made.
SpliceStep ==
    (pc = "Splice" /\ pc' = "Retire") =>
        LET before == RingNodes(next, conflictSetHead)
            remaining == RingNodes(next', conflictSetHead')
            made == RingNodes(next', evictionSetHeads'[Len(evictionSetHeads')])
        IN /\ evictionSet \subseteq before
           /\ made = evictionSet
           /\ conflictSetHead' \in before \ evictionSet
           /\ conflictSetHead' \notin made
           /\ remaining = before \ evictionSet
           /\ WellFormedRing(next', prev', conflictSetHead',
                             Cardinality(before) - WAYS_PER_BANK)
           /\ WellFormedRing(next',prev',
                             evictionSetHeads'[Len(evictionSetHeads')],
                             WAYS_PER_BANK)

\* C25: after each splice of ways marked nodes out of the conflict ring the
\* conflict-ring handle is a node of the remaining conflict ring and never a
\* node of the ring just spliced out, also when the handle and its
\* next-neighbours are all marked; the remaining conflict ring is a
\* well-formed cycle of exactly ways fewer nodes than before the splice.
C25_HandleSurvivesSplice == [][SpliceStep]_vars

\* The first splice is over; the handle it found on entry (the seed's first
\* node) and the handle's next-neighbour were the marked nodes, and the
\* handle has moved past both.
C25_Witness ==
    /\ pc = "Retire"
    /\ Len(evictionSetHeads) = 1
    /\ Min(candidates) \in evictionSet
    /\ conflictSetHead = testNode
    /\ conflictSetHead \notin evictionSet
    /\ WellFormedRing(next, prev, conflictSetHead,
                      CONFLICT_SET_SIZE - WAYS_PER_BANK)

(***************************************************************************)
(* GetEvictionSet without the clause of lines 571-578 that passes over a   *)
(* marked test node.                                                       *)
(***************************************************************************)
\* Lines 580-582 reached by every test node: evictionSet is a std::set, so
\* the insert of line 597 on a marked node changes nothing.
ScanUnspliceAny ==
    /\ pc = "Scan"
    /\ Cardinality(evictionSet) < WAYS_PER_BANK
    /\ LET m == UnlinkPrevFirst(Mem, testNode) IN
          next' = m.next /\ prev' = m.prev
    /\ pc' = "ScanProbe"
    /\ UNCHANGED <<error, platform, setIndex, array, candidates, sliceOf,
                   candidateSetHead, conflictSetHead, candidate, count, i,
                   evictionSetHeads, evictionSet, testNode, missToDRAM,
                   probed, conflictNodes, witnesses, probeVars, harnessVars,
                   rerunVars>>

NextNoSkip ==
    \/ Allocate(ArrayBases, ArraySizes)
    \/ EnumerateCandidates
    \/ InsufficientCandidates
    \/ Randomize
    \/ SanityCheckCandidates
    \/ SeedConflictSet
    \/ Warmup
    \/ Grow
    \/ GrowDone
    \/ Search
    \/ Confirm
    \/ ScanUnspliceAny
    \/ ScanProbe
    \/ ScanResplice
    \/ Splice
    \/ Retire
    \/ Finish

SpecNoSkip == Init /\ [][NextNoSkip]_vars

\* C26 as stated: without the clause, some node is in two of the rings the
\* builder is about to return.
C26_NoSkipBreaksDisjointness ==
    pc = "Final" => ~EvictionSetsDisjoint(next, OutputRings)

\* A marked node under test again.
Retesting == pc \in {"ScanProbe", "ScanResplice"} /\ testNode \in evictionSet

\* C26, amended: without the clause that skips marked test nodes a marked
\* node is tested again, the marked set stays a set of at most ways nodes
\* of the conflict ring, and the rings the builder is about to return are
\* pairwise disjoint rings of ways nodes each.
C26_NoSkipKeepsDisjointness ==
    /\ pc = "Final" =>
          /\ EvictionSetsDisjoint(next, OutputRings)
          /\ EvictionSetSizesOk(next, OutputRings)
    /\ Retesting =>
          /\ Cardinality(evictionSet) < WAYS_PER_BANK
          /\ evictionSet \subseteq ConflictRing
    /\ pc = "Splice" =>
          /\ Cardinality(evictionSet) = WAYS_PER_BANK
          /\ evictionSet \subseteq RingNodes(next, conflictSetHead)

\* A marked node was tested again, was found to be needed again, and is
\* about to be inserted into the marked set a second time.
C26_Witness ==
    /\ pc = "ScanResplice"
    /\ testNode \in evictionSet
    /\ ~missToDRAM

(***************************************************************************)
(* Termination of GetEvictionSet.                                          *)
(***************************************************************************)
\* Where the call is: every step of the builder moves it on.
position == <<pc, i, candidate, testNode>>

\* Regions with one candidate too few and with just enough candidates.
FairSizes ==
    {(2 * CONFLICT_SET_SIZE - 1 + j) * SETS_PER_BANK : j \in 0..1}

\* The steps of the call once the candidates are chained.
Building ==
    \/ SanityCheckCandidates
    \/ SeedConflictSet
    \/ Warmup
    \/ Grow
    \/ GrowDone
    \/ Search
    \/ Confirm
    \/ ScanSkip
    \/ ScanUnsplice
    \/ ScanProbe
    \/ ScanResplice
    \/ Splice
    \/ Retire
    \/ Finish

NextFair ==
    \/ Allocate(TwiceBases, FairSizes)
    \/ EnumerateCandidates
    \/ InsufficientCandidates
    \/ Randomize
    \/ Building

\* Lines 346-360 are left, by the check of line 346 or with the chain:
\* a step of InsufficientCandidates or of Randomize, whatever it stores.
Chaining == pc = "Enumerated" /\ pc' \in {"Chained", "Aborted"}

\* The thread that runs the builder keeps running: a step that can be taken
\* is taken.
FairSpec ==
    /\ SpecTwiceInit
    /\ [][NextFair]_vars
    /\ WF_pc(Chaining)
    /\ WF_position(Building)

\* Probe answers exactly and the pool holds WAYS_PER_BANK + 1 nodes of every
\* bank.
ExactProbeAndPool == platform = "ideal" /\ PoolCoversEveryBank

\* The scan is at a test node that is already marked: it is on a second
\* pass over the conflict ring.
SecondPass ==
    /\ pc = "Scan"
    /\ Cardinality(evictionSet) < WAYS_PER_BANK
    /\ testNode \in evictionSet

RingHandles ==
    IF pc \in {"Chained", "Seeding"} THEN {Min(candidates)}
    ELSE {IF pc \in GrowingPcs THEN candidateSetHead ELSE candidate}
         \cup (IF pc = "Done" THEN {} ELSE {conflictSetHead})
         \cup {evictionSetHeads[j] : j \in 1..Len(evictionSetHeads)}

\* Every ring is a well-formed cycle, closed under next and prev.
RingsWellFormed ==
    \A h \in RingHandles :
        WellFormedRing(next, prev, h, Cardinality(RingNodes(next, h)))

RingsDisjoint ==
    \A g, h \in RingHandles :
        g # h => RingNodes(next, g) \cap RingNodes(next, h) = {}

InSomeRing == UNION {RingNodes(next, h) : h \in RingHandles}

\* The nodes the partitioning has dropped or retired from the leftover ring.
OutOfEveryRing == candidates \ InSomeRing

\* During growth every candidate is in a ring; afterwards the nodes of the
\* conflict set are in the conflict ring or in a spliced ring, and the
\* witnesses retired so far are in none.
RingsCoverPool ==
    /\ InSomeRing \subseteq candidates
    /\ pc \in {"Chained", "Seeding"} \cup GrowingPcs => OutOfEveryRing = {}
    /\ pc \in PartitioningPcs \cup {"Final", "Done"} =>
          /\ conflictNodes \cap OutOfEveryRing = {}
          /\ conflictNodes \cap RingNodes(next, candidate) = {}
          /\ \A j \in 1..Len(witnesses) :
                pc # "Retire" \/ j < Len(witnesses) =>
                    witnesses[j] \in OutOfEveryRing

\* C28: outside the unsplice/re-splice of one test node, the leftover ring,
\* the conflict ring and every spliced-out ring are well-formed
\* doubly-linked cycles, no node is in two of them, and every candidate is
\* in exactly one of them or was dropped or retired and is reachable from
\* none.
C28_RingsPartitionPool ==
    (pc \notin {"NeedRegion", "Allocated", "Enumerated", "Aborted",
                "ScanProbe", "ScanResplice"}) =>
        /\ RingsWellFormed
        /\ RingsDisjoint
        /\ RingsCoverPool

\* The last ring is about to be returned; candidates were dropped and a
\* witness was retired.
C28_Witness ==
    /\ pc = "Final"
    /\ Cardinality(RingHandles) = LLC_BANKS + 1
    /\ Cardinality(OutOfEveryRing) > LLC_BANKS - 1
    /\ witnesses[1] \in OutOfEveryRing

(***************************************************************************)
(* The readers of the rings: Probe, the sanity oracles inside the builder, *)
(* and the threads of the harness.  The builder, a Probe call and main()   *)
(* run each on its own.                                                    *)
(***************************************************************************)
NextReaders ==
    \/ mainPc = "BuildAttacker" /\ exitStatus = "running" /\ Next
    \/ NextProbe
    \/ pc = "NeedRegion" /\ NextHarness

SpecReaders == (Init \/ SpecProbeInit) /\ [][NextReaders]_vars

\* A call of Probe is under way.
InProbe ==
    pc \in {"ProbeCall", "ProbeLoop", "ProbeTraverse1", "ProbeRead",
            "ProbeTraverse2", "ProbeTimedRead"}

\* The builder is at a call of SanityCheckCandidates (line 365),
\* SanityCheckConflictSet (line 463) or SanityCheckEvictionSets (line 656),
\* or at a Probe whose answer moves no node (lines 416-419, 584-589).
AtOracle ==
    \/ pc \in {"Chained", "Final"}
    \/ pc = "ConflictGrowing" /\ count >= CONFLICT_SET_SIZE
    \/ pc \in {"Warmup", "ScanProbe"}

\* A thread of the harness has been created.
HarnessPhase == ThreadsCreated # {}

\* The rings the two builders returned, as they were returned.
ReturnedRingsIntact ==
    \A who \in {"attacker", "victim"} : \A b \in Banks :
        /\ WellFormedRing(next, prev, HandleNode(who, b), WAYS_PER_BANK)
        /\ RingNodes(next, HandleNode(who, b))
               = {<<who, b, k>> : k \in 0..(WAYS_PER_BANK - 1)}

\* C29: Probe, the three sanity oracles and the profiler, attacker and
\* victim threads change no node's next or prev: the links are the same
\* before and after every step of a Probe call and of an oracle, and from
\* the creation of the first thread of the harness on, the links and the
\* two vectors of ring handles stay as the builders returned them.
C29_ReadersLeaveLinks ==
    /\ [](HarnessPhase => ReturnedRingsIntact)
    /\ [][(InProbe \/ AtOracle \/ HarnessPhase) =>
              (next' = next /\ prev' = prev)]_vars
    /\ [][HarnessPhase =>
              /\ evictionSetsAttacker' = evictionSetsAttacker
              /\ evictionSetsVictim' = evictionSetsVictim]_vars

\* The last experiment is over: main has returned 0, after victims and an
\* attacker have chased the rings, and the rings are intact.
C29_Witness ==
    /\ mainPc = "Exited"
    /\ exitStatus = "exit0"
    /\ numVictimThreads > MAX_NUM_VICTIM_THREADS
    /\ ReturnedRingsIntact

(***************************************************************************)
(* The assertion candidate->next != candidate (lines 514, 543 and 641).    *)
(***************************************************************************)
\* The cursor candidate is the only node of the leftover ring.
LastLeftover == next[candidate] = candidate

\* C30: whatever the Probes answer, whenever slice partitioning drops a
\* candidate or retires a witness the leftover ring holds another node: the
\* assertion candidate->next != candidate never fails, also not at the
\* retirement that follows the last splice.
C30_LeftoverNeverRunsOut ==
    /\ error # "NoCandidatesLeft"
    /\ pc = "Retire" => ~LastLeftover

(***************************************************************************)
(* The epochs main() emits for a bank (lines 313-327).                     *)
(***************************************************************************)
\* C31: for v > 0 every delta written to the per-bank file is t[i] - t[i-1]
\* of an epoch 1 <= i <= T - 1: main reads attackerTimesArray at no index
\* outside of 0 .. T - 1, in particular never at index -1 for a delta of
\* epoch 0, and no boundary access - 1 wraps below zero, also when t[0] is
\* at or after the start or the end of the window of bank 0.
C31_DeltasOfLaterEpochsOnly ==
    numVictimThreads > 0 =>
        /\ IndicesRead("main") \subseteq TimedEpochs
        /\ \A j \in DOMAIN boundaries : boundaries[j] >= 0

=============================================================================
